---- MODULE Spec2Model ----
(***************************************************************************)
(* s3deploy: one Deploy run (lib/deployer.go, lib/store.go) as a state     *)
(* machine.  The goroutines of a run are the main goroutine (Deploy and    *)
(* the planner it calls), the walker started by plan, and the upload       *)
(* workers; they meet on two unbuffered channels (localFiles,              *)
(* filesToUpload) and share the errgroup with its context.                 *)
(*                                                                         *)
(* Strings that the code slices or joins (keys, paths) are sequences of    *)
(* one-character strings.  A compiled regular expression is the set of     *)
(* paths it matches.                                                       *)
(***************************************************************************)
EXTENDS Integers, Sequences, FiniteSets, TLC

\* ---------------------------------------------------------------- bounds

\* Largest configured worker count explored.
MaxWorkers == 2

\* runtime.NumCPU() of the host.
NumCPU == 2

\* Largest delete-candidate list explored by the deletion-phase specification,
\* counted in keys above two full backend batches.
MaxExtraKeys == 2

\* The maximum batch size of the backend (store.go: chunkSize := 1000).
MaxChunk == 1000

\* ----------------------------------------------------------- strings, paths

\* strings.HasPrefix
HasPrefix(s, p) == Len(p) <= Len(s) /\ SubSeq(s, 1, Len(p)) = p

\* strings.TrimPrefix
TrimPrefix(s, p) == IF HasPrefix(s, p) THEN SubSeq(s, Len(p) + 1, Len(s)) ELSE s

\* pathJoin of two elements that are already clean (no ".", no "//"): empty
\* elements are dropped, the others joined by one slash.
pathJoin(a, b) ==
    IF a = <<>> THEN b
    ELSE IF b = <<>> THEN a
    ELSE a \o <<"/">> \o b

\* ------------------------------------------------- strings and paths (Go)
\* Strings are sequences of one-character strings.  The characters that occur,
\* in byte order.
Alphabet == <<"*", ".", "/", "a", "b", "c", "d", "e", "h", "i", "l", "m", "n", "r",
              "s", "t", "x", "y">>

Ord(c) == CHOOSE i \in 1..Len(Alphabet) : Alphabet[i] = c

\* The order of sort.Strings: bytewise lexicographic.
RECURSIVE StrLess(_, _)
StrLess(a, b) ==
    IF b = <<>> THEN FALSE
    ELSE IF a = <<>> THEN TRUE
    ELSE IF a[1] = b[1] THEN StrLess(Tail(a), Tail(b))
    ELSE Ord(a[1]) < Ord(b[1])

\* strings.Count(s, "/")
StrCount(s, c) == Cardinality({i \in 1..Len(s) : s[i] = c})

\* strings.HasSuffix
HasSuffix(s, suf) ==
    Len(suf) <= Len(s) /\ SubSeq(s, Len(s) - Len(suf) + 1, Len(s)) = suf

\* strings.Split(s, "/"): the pieces between the slashes, empty ones included.
RECURSIVE StrSplit(_)
StrSplit(s) ==
    IF \A i \in 1..Len(s) : s[i] # "/" THEN <<s>>
    ELSE LET i == CHOOSE j \in 1..Len(s) : s[j] = "/" /\ \A h \in 1..(j - 1) : s[h] # "/"
         IN <<SubSeq(s, 1, i - 1)>> \o StrSplit(SubSeq(s, i + 1, Len(s)))

\* strings.Join(elems, "/")
RECURSIVE StrJoin(_)
StrJoin(elems) ==
    IF elems = <<>> THEN <<>>
    ELSE IF Len(elems) = 1 THEN elems[1]
    ELSE elems[1] \o <<"/">> \o StrJoin(Tail(elems))

\* The elements of a sequence that satisfy a test, in order.
RECURSIVE KeepNonEmpty(_)
KeepNonEmpty(elems) ==
    IF elems = <<>> THEN <<>>
    ELSE IF elems[1] = <<>> THEN KeepNonEmpty(Tail(elems))
    ELSE <<elems[1]>> \o KeepNonEmpty(Tail(elems))

\* path.Clean, its pass over the elements: "." is dropped, ".." removes the
\* element before it, is dropped at the root, and is kept otherwise.
RECURSIVE CleanElems(_, _, _)
CleanElems(elems, out, rooted) ==
    IF elems = <<>> THEN out
    ELSE LET e == elems[1]
             rest == Tail(elems)
         IN IF e = <<".">> THEN CleanElems(rest, out, rooted)
            ELSE IF e = <<".", ".">>
            THEN IF out # <<>> /\ out[Len(out)] # <<".", ".">>
                 THEN CleanElems(rest, SubSeq(out, 1, Len(out) - 1), rooted)
                 ELSE IF rooted THEN CleanElems(rest, out, rooted)
                 ELSE CleanElems(rest, Append(out, e), rooted)
            ELSE CleanElems(rest, Append(out, e), rooted)

\* path.Clean: the shortest equivalent path; "." for the empty one.
PathClean(p) ==
    LET rooted == p # <<>> /\ p[1] = "/"
        body == StrJoin(CleanElems(KeepNonEmpty(StrSplit(p)), <<>>, rooted))
    IN IF rooted THEN <<"/">> \o body
       ELSE IF body = <<>> THEN <<".">>
       ELSE body

\* path.Dir: all but the last element of the path, cleaned.
PathDir(p) ==
    LET slashes == {i \in 1..Len(p) : p[i] = "/"}
        last == IF slashes = {} THEN 0
                ELSE CHOOSE i \in slashes : \A j \in slashes : j <= i
    IN PathClean(SubSeq(p, 1, last))

\* path.Join: the non-empty elements joined by slashes and cleaned; the empty
\* string when there is none.
PathJoin(elems) ==
    IF KeepNonEmpty(elems) = <<>> THEN <<>>
    ELSE PathClean(StrJoin(KeepNonEmpty(elems)))

\* uniqueStrings: the first occurrence of every string, in order.
RECURSIVE uniqueStrings(_)
uniqueStrings(s) ==
    IF s = <<>> THEN <<>>
    ELSE LET init == uniqueStrings(SubSeq(s, 1, Len(s) - 1))
             x == s[Len(s)]
         IN IF \E i \in 1..Len(init) : init[i] = x THEN init ELSE Append(init, x)

\* sortStrings, were the list left in the order it came in.
sortNothing(s) == s

\* sort.Strings, of strings that are all different or not.
RECURSIVE sortStrings(_)
sortStrings(s) ==
    IF s = <<>> THEN <<>>
    ELSE LET m == CHOOSE i \in 1..Len(s) :
                      /\ \A j \in 1..Len(s) : ~StrLess(s[j], s[i])
                      /\ \A j \in 1..(i - 1) : s[j] # s[i]
         IN <<s[m]>> \o sortStrings(SubSeq(s, 1, m - 1) \o SubSeq(s, m + 1, Len(s)))

\* The relative paths of the local tree and of the bucket.
RelA == <<"a">>
RelB == <<"b">>
RelC == <<"c">>
RelD == <<"d">>
RelE == <<"e">>

\* Keys of other sites in the same bucket: site "t", and site "sx" whose name
\* starts with the name of site "s".
ForeignKey == <<"t", "/", "a">>
SiblingKey == <<"s", "x", "/", "a">>

\* ------------------------------------------------------------------ errors

Err(kind, key) == [kind |-> kind, key |-> key]
NoErr == Err("nil", <<>>)
\* context.Canceled
Canceled == Err("canceled", <<>>)

\* ----------------------------------------------------------- validation

\* The settings Config.init checks, in its order: a bucket name, access key and
\* secret key with the environment's AWS_ACCESS_KEY_ID and
\* AWS_SECRET_ACCESS_KEY to fall back on, a source path, the deprecated
\* public-access flag, the acl, and whether every -ignore pattern compiles.
ValidFlags ==
    [BucketName |-> "example.com", AccessKey |-> "key", SecretKey |-> "secret",
     EnvAccessKey |-> "", EnvSecretKey |-> "",
     SourcePath |-> <<"p">>, PublicReadACL |-> FALSE, ACL |-> "",
     IgnoreCompiles |-> TRUE]

\* Other settings: those that fail one check of Config.init or two, and four
\* that pass (no credentials at all, a secret key from the environment, a
\* source path with a trailing slash, the deprecated flag without an acl).
OtherFlags ==
    { [ValidFlags EXCEPT !.BucketName = ""],
      [ValidFlags EXCEPT !.SecretKey = ""],
      [ValidFlags EXCEPT !.AccessKey = ""],
      [ValidFlags EXCEPT !.SourcePath = <<"/">>],
      [ValidFlags EXCEPT !.PublicReadACL = TRUE, !.ACL = "public-read"],
      [ValidFlags EXCEPT !.IgnoreCompiles = FALSE],
      [ValidFlags EXCEPT !.BucketName = "", !.SourcePath = <<"/">>],
      [ValidFlags EXCEPT !.AccessKey = "", !.SecretKey = ""],
      [ValidFlags EXCEPT !.SecretKey = "", !.EnvSecretKey = "secret"],
      [ValidFlags EXCEPT !.SourcePath = <<"/", "p", "/">>],
      [ValidFlags EXCEPT !.PublicReadACL = TRUE] }

\* Config.init: the error of the first check that fails, nil when none does.
cfginit(fl) ==
    IF fl.BucketName = "" THEN Err("config", <<"AWS bucket is required">>)
    ELSE IF LET AccessKey == IF fl.AccessKey = "" THEN fl.EnvAccessKey ELSE fl.AccessKey
                SecretKey == IF fl.SecretKey = "" THEN fl.EnvSecretKey ELSE fl.SecretKey
            IN /\ ~(AccessKey = "" /\ SecretKey = "")
               /\ (AccessKey = "" \/ SecretKey = "")
    THEN Err("config", <<"both AWS access key and secret key must be provided">>)
    ELSE IF HasSuffix(PathClean(fl.SourcePath), <<"/">>)
    THEN Err("config", <<"invalid source path: Cannot deploy from root">>)
    ELSE IF fl.PublicReadACL /\ fl.ACL # ""
    THEN Err("config", <<"public-access and acl">>)
    ELSE IF ~fl.IgnoreCompiles
    THEN Err("config", <<"cannot compile 'ignore' flag pattern">>)
    ELSE NoErr

\* ------------------------------------------------------------------- files

\* The content of the local files: every file of the tree has one byte size and
\* one fingerprint; a remote object equals it in both, or differs in one.
LocalSize(rel) == 1
LocalETag(rel) == "L"

RemoteObj(kind) ==
    CASE kind = "same" -> [size |-> 1, etag |-> "L"]
      [] kind = "size" -> [size |-> 2, etag |-> "L"]
      [] kind = "etag" -> [size |-> 1, etag |-> "R"]

NoFile == [rel |-> <<>>, key |-> <<>>, size |-> 0, etag |-> "", reason |-> ""]

\* osFile.Key
Key(targetRoot, relPath) ==
    IF targetRoot # <<>> THEN pathJoin(targetRoot, relPath) ELSE relPath

\* ------------------------------------------------------------ configuration

\* routes.get: the first route whose expression matches, 0 for nil.
RoutesGetFrom(routes, path, i) ==
    LET n == Len(routes)
        hits == {j \in i..n : path \in routes[j].re}
    IN IF hits = {} THEN 0 ELSE CHOOSE j \in hits : \A h \in hits : j <= h

RoutesGet(routes, path) == RoutesGetFrom(routes, path, 1)

\* Config.shouldIgnoreLocal
shouldIgnoreLocal(c, key) == key \in c.Ignore

\* Config.shouldIgnoreRemote
shouldIgnoreRemote(c, key) ==
    LET sub0 == SubSeq(key, Len(c.BucketPath) + 1, Len(key))
        sub  == TrimPrefix(sub0, <<"/">>)
    IN \/ \E j \in 1..Len(c.Routes) : c.Routes[j].Ignore /\ sub \in c.Routes[j].re
       \/ sub \in c.Ignore

\* orders.get, were it to look for the first expression that matches, as
\* routes.get does.
OrdersGetFirst(o, path) ==
    LET hits == {i \in 1..Len(o) : path \in o[i]}
    IN IF hits = {} THEN 0 ELSE CHOOSE i \in hits : \A h \in hits : i <= h

\* orders.get, its loop: for i := len(o) - 1; i >= 0; i-- { if o[i] matches
\* { return i + 1 } }; return 0.  Positions count from 1 here.
RECURSIVE ordersGetFrom(_, _, _)
ordersGetFrom(o, path, i) ==
    IF i < 1 THEN 0
    ELSE IF path \in o[i] THEN i
    ELSE ordersGetFrom(o, path, i - 1)

\* orders.get
OrdersGet(o, path) == ordersGetFrom(o, path, Len(o))

\* The file configurations explored: the -ignore patterns, the route table and
\* the order expressions.
FileConfs ==
    { [Ignore |-> {}, Routes |-> <<>>, Order |-> <<>>],
      [Ignore |-> {RelB, RelD}, Routes |-> <<>>, Order |-> <<>>],
      [Ignore |-> {}, Routes |-> << [re |-> {RelB, RelE}, Ignore |-> TRUE] >>,
       Order |-> <<>>],
      [Ignore |-> {}, Routes |-> << [re |-> {RelC}, Ignore |-> FALSE],
                                    [re |-> {RelC, RelD}, Ignore |-> TRUE] >>,
       Order |-> <<>>],
      [Ignore |-> {}, Routes |-> <<>>, Order |-> << {RelE}, {RelA} >>] }

\* The runs explored: a plain run, a forced run and a trial run.
Modes ==
    { [Force |-> FALSE, Try |-> FALSE],
      [Force |-> TRUE, Try |-> FALSE],
      [Force |-> FALSE, Try |-> TRUE] }

\* The configurations explored: with and without a bucket path, a ceiling of
\* one deleted key and the default one, one worker and the largest count.
Configs ==
    { [BucketPath |-> bp, Force |-> mo.Force, Try |-> mo.Try, MaxDelete |-> md,
       NumberOfWorkers |-> nw, Ignore |-> fc.Ignore, Routes |-> fc.Routes,
       Order |-> fc.Order, Flags |-> ValidFlags] :
        bp \in {<<>>, <<"s">>}, mo \in Modes, md \in {1, 256},
        nw \in {1, MaxWorkers}, fc \in FileConfs }
    \cup
    \* no worker count configured
    { [BucketPath |-> <<>>, Force |-> FALSE, Try |-> FALSE, MaxDelete |-> 256,
       NumberOfWorkers |-> 0, Ignore |-> {}, Routes |-> <<>>, Order |-> <<>>,
       Flags |-> ValidFlags] }
    \cup
    \* other settings of the flags that Config.init checks
    { [BucketPath |-> <<>>, Force |-> FALSE, Try |-> FALSE, MaxDelete |-> 256,
       NumberOfWorkers |-> 1, Ignore |-> {}, Routes |-> <<>>, Order |-> <<>>,
       Flags |-> fl] : fl \in OtherFlags }

\* The local trees explored, in the order filepath.Walk visits them.
LocalTrees == { <<>>, <<RelA, RelB, RelC>> }

\* The bucket contents explored: per relative path, whether the bucket holds
\* an object for it under the bucket path and how it compares to the local file.
\* Beside them the bucket holds keys of other sites.
BucketKinds ==
    { [kinds |-> [r \in {RelA, RelB, RelC, RelD, RelE} |-> "absent"],
       other |-> {ForeignKey, SiblingKey}],
      [kinds |-> (RelA :> "same" @@ RelB :> "size" @@ RelC :> "etag" @@ RelD :> "same"
                  @@ RelE :> "absent"),
       other |-> {ForeignKey}],
      [kinds |-> (RelA :> "same" @@ RelB :> "same" @@ RelC :> "same" @@ RelD :> "absent"
                  @@ RelE :> "absent"),
       other |-> {ForeignKey}],
      [kinds |-> (RelA :> "absent" @@ RelB :> "etag" @@ RelC :> "absent" @@ RelD :> "same"
                  @@ RelE :> "same"),
       other |-> {ForeignKey}] }

MkBucket(bp, bk) ==
    LET rels == {r \in DOMAIN bk.kinds : bk.kinds[r] # "absent"}
        keys == {pathJoin(bp, r) : r \in rels}
        relOf(k) == CHOOSE r \in rels : pathJoin(bp, r) = k
    IN [k \in keys \cup bk.other |->
            IF k \in keys THEN RemoteObj(bk.kinds[relOf(k)]) ELSE RemoteObj("same")]

\* ------------------------------------------------------------------- state

VARIABLES
    cfg,            \* the Config of the run
    tree,           \* the local tree, in walk order
    bucket,         \* the backend: key -> object
    mainPc,         \* where Deploy (and plan, which it calls) stands
    planErr,        \* the error plan returned
    remoteFiles,    \* plan's remoteFiles map
    pf,             \* the file plan holds in enqueueUpload
    wPc,            \* where the walker stands
    wIdx,           \* the index in tree of the file the walker is at
    wFile,          \* the file the walker offers on localFiles
    wErr,           \* the error walk returns
    lfClosed,       \* localFiles is closed
    upClosed,       \* filesToUpload is closed
    wk,             \* the upload workers: pc, file in Put
    gErr,           \* errgroup: the first error recorded
    ctxDone,        \* the shared context is cancelled
    filesToDelete,  \* Deployer.filesToDelete
    stats,          \* DeployStats
    changedKeys,    \* store.changedKeys
    keyChunks,      \* DeleteObjects: the batches
    dIdx,           \* DeleteObjects: the loop index (from 1)
    deleted,        \* DeleteObjects: the local count
    result,         \* what Deploy returned
    putLog,         \* history: the keys store.Put was called with
    putFailed,      \* history: the keys whose Put returned an error
    listed,         \* history: the remote listing plan got
    received,       \* history: the keys of the files plan received
    unchanged,      \* history: the keys of the files plan classified unchanged
    etagInit,       \* osFile.etagInit: the files whose ETag has been computed
    etagLog,        \* history: the keys calculateETag was run for, in order
    deleteCalls,    \* history: the batches store.DeleteObjects passed on
    invalidations,  \* history: the invalidation requests sent to the CDN
    prior,          \* what the previous Deploy call of this process left
    cdn,            \* the CDN client: a call of normalizeInvalidationPaths
    initOnce,       \* Config.initOnce: init has run
    initCalls,      \* history: what the calls of Config.Init returned, in order
    grp             \* the grouping: orders.get applied to a list of local files

vars == <<cfg, tree, bucket, mainPc, planErr, remoteFiles, pf, wPc, wIdx, wFile,
          wErr, lfClosed, upClosed, wk, gErr, ctxDone, filesToDelete, stats,
          changedKeys, keyChunks, dIdx, deleted, result, putLog, putFailed, listed,
          received, unchanged, etagInit, etagLog, deleteCalls, invalidations, prior,
          cdn, initOnce, initCalls, grp>>

inputVars  == <<cfg, tree, prior, cdn, initOnce, initCalls, grp>>
walkVars   == <<wPc, wIdx, wFile, wErr, lfClosed>>
planVars   == <<planErr, remoteFiles, pf, upClosed, filesToDelete>>
groupVars  == <<gErr, ctxDone>>
deleteVars == <<keyChunks, dIdx, deleted, deleteCalls>>
etagVars   == <<etagInit, etagLog>>
histVars   == <<putLog, putFailed, listed, received, unchanged, etagVars>>

\* numberOfWorkers, were Deploy to start one worker too many.
oneWorkerMore == 1 + (IF cfg.NumberOfWorkers <= 0 THEN NumCPU ELSE cfg.NumberOfWorkers)

\* Deploy: numberOfWorkers := cfg.NumberOfWorkers; if numberOfWorkers <= 0 {
\* numberOfWorkers = runtime.NumCPU() }
numberOfWorkers == IF cfg.NumberOfWorkers <= 0 THEN NumCPU ELSE cfg.NumberOfWorkers

\* The upload goroutines Deploy starts.
Workers == 1..numberOfWorkers

NoResult == [returned |-> FALSE, err |-> NoErr,
             stats |-> [Deleted |-> 0, Stale |-> 0, Uploaded |-> 0, Skipped |-> 0]]

InitRun ==
    /\ mainPc = "init"
    /\ planErr = NoErr
    /\ remoteFiles = <<>>
    /\ pf = NoFile
    /\ wPc = "notstarted"
    /\ wIdx = 1
    /\ wFile = NoFile
    /\ wErr = NoErr
    /\ lfClosed = FALSE
    /\ upClosed = FALSE
    /\ wk = [w \in Workers |-> [pc |-> "select", f |-> NoFile]]
    /\ gErr = NoErr
    /\ ctxDone = FALSE
    /\ filesToDelete = <<>>
    /\ stats = [Deleted |-> 0, Stale |-> 0, Uploaded |-> 0, Skipped |-> 0]
    /\ changedKeys = <<>>
    /\ keyChunks = <<>>
    /\ dIdx = 1
    /\ deleted = 0
    /\ result = NoResult
    /\ putLog = {}
    /\ putFailed = {}
    /\ listed = {}
    /\ received = {}
    /\ unchanged = {}
    /\ etagInit = {}
    /\ etagLog = <<>>
    /\ deleteCalls = <<>>
    /\ invalidations = <<>>

\* No Deploy call has returned yet.
NoPrior == [runs |-> 0]

\* normalizeInvalidationPaths has not been called.
NoCdn == [called |-> FALSE]

\* No local files have been grouped.
NoGrp == [called |-> FALSE]

Init ==
    /\ cfg \in Configs
    /\ tree \in LocalTrees
    /\ prior = NoPrior
    /\ cdn = NoCdn
    /\ initOnce = FALSE
    /\ initCalls = <<>>
    /\ grp = NoGrp
    /\ \E k \in BucketKinds : bucket = MkBucket(cfg.BucketPath, k)
    /\ InitRun

\* ------------------------------------------------------------ the backend

\* FileMap, were the listing not restricted to the bucket path.
FileMapAll(b, bucketPath) == b

\* s3Store.FileMap: the objects whose key starts with the bucket path
\* (ListObjectsV2 with Prefix).
FileMap(b, bucketPath) ==
    LET keys == {k \in DOMAIN b : HasPrefix(k, bucketPath)}
    IN [k \in keys |-> b[k]]

\* MapDelete, were plan not to remove the keys it has matched.
MapKeep(m, key) == m

\* delete(remoteFiles, key)
MapDelete(m, key) == [k \in DOMAIN m \ {key} |-> m[k]]

\* ------------------------------------------------------------------ errgroup

\* GroupRecord, were the group to drop the errors its functions return.
GroupRecordNothing(err) == UNCHANGED <<gErr, ctxDone>>

\* errgroup.Group.Go: the first non-nil error a function returns is kept and
\* cancels the group's context.
GroupRecord(err) ==
    IF err # NoErr /\ gErr = NoErr
    THEN gErr' = err /\ ctxDone' = TRUE
    ELSE UNCHANGED <<gErr, ctxDone>>

\* TrialRun, were Deploy to leave the store as it is in a trial run.
TrialRunNever == FALSE

\* Deploy: if d.cfg.Try { baseStore = newNoUpdateStore(baseStore) }: the store's
\* delegate answers Put, DeleteObjects and InvalidateCDNCache itself.
TrialRun == cfg.Try

\* ------------------------------------------------------------------- init

\* InitFailed, were Deploy to go on whatever Init returned.
InitErrIgnored(err) == FALSE

\* Deploy: if err := cfg.Init(); err != nil
InitFailed(err) == err # NoErr

\* Config.Init: var err error; cfg.initOnce.Do(func() { err = cfg.init() });
\* return err.  The call that runs init returns what init returned; in any
\* other call Do does nothing and err is still nil.
ConfigInit == IF initOnce THEN NoErr ELSE cfginit(cfg.Flags)

\* Deploy's first statement, a call of Config.Init; on an error Deploy returns
\* it with an empty DeployStats.
DeployInit ==
    /\ mainPc = "init"
    /\ initOnce' = TRUE
    /\ initCalls' = Append(initCalls, ConfigInit)
    /\ LET err == ConfigInit
       IN IF InitFailed(err)
          THEN /\ result' = [returned |-> TRUE, err |-> err, stats |-> NoResult.stats]
               /\ mainPc' = "returned"
          ELSE /\ mainPc' = "plan"
               /\ UNCHANGED result
    /\ UNCHANGED <<cfg, tree, prior, cdn, grp, bucket, planVars, walkVars, wk, groupVars,
                   stats, changedKeys, deleteVars, histVars, invalidations>>

\* ------------------------------------------------------------------- plan

\* Deployer.plan, its first statement: the remote listing.  When it fails plan
\* returns the error; otherwise plan starts the walker and enters its loop.
PlanFileMap ==
    /\ mainPc = "plan"
    /\ \/ /\ planErr' = Err("list", <<>>)
          /\ mainPc' = "cancel"
          /\ UNCHANGED <<remoteFiles, wPc, listed>>
       \/ /\ remoteFiles' = FileMap(bucket, cfg.BucketPath)
          /\ listed' = DOMAIN remoteFiles'
          /\ wPc' = "walk"
          /\ mainPc' = "loop"
          /\ UNCHANGED planErr
    /\ UNCHANGED <<inputVars, bucket, pf, wIdx, wFile, wErr, lfClosed, upClosed, wk,
                   groupVars, filesToDelete, stats, changedKeys, deleteVars, result,
                   putLog, putFailed, received, unchanged, etagVars, invalidations>>

\* Deploy: err := d.plan(ctx); if err != nil { cancel() }
DeployCancel ==
    /\ mainPc = "cancel"
    /\ ctxDone' = TRUE
    /\ mainPc' = "wait"
    /\ UNCHANGED <<inputVars, bucket, planVars, walkVars, wk, gErr, stats, changedKeys,
                   deleteVars, result, histVars, invalidations>>

\* shouldThisReplace, were it to compare the sizes only.
shouldReplaceBySize(f, other) ==
    IF f.size # other.size THEN [up |-> TRUE, reason |-> "size"]
    ELSE [up |-> FALSE, reason |-> ""]

\* comparesETag, were shouldThisReplace to compare the ETags first.
comparesETagAlways(f, other) == TRUE

\* osFile.shouldThisReplace: f.ETag() is called when the sizes are equal.
comparesETag(f, other) == f.size = other.size

\* osFile.ETag: etagInit.Do has run for the file; calculateETag runs in the
\* first call only.
etagInitDone(f) == f.key \in etagInit

\* osFile.shouldThisReplace
shouldThisReplace(f, other) ==
    IF f.size # other.size THEN [up |-> TRUE, reason |-> "size"]
    ELSE IF f.etag # other.etag THEN [up |-> TRUE, reason |-> "ETag"]
    ELSE [up |-> FALSE, reason |-> ""]

\* Forced, were plan not to look at the force setting.
ForcedNever == FALSE

\* plan: if d.cfg.Force, for a local file found in the listing.
Forced == cfg.Force

\* planBucketPath, were plan to look a file up by its path alone.
planKeyPath(f) == f.rel

\* plan: bucketPath, the key a local file is looked up by in the listing.
planBucketPath(f) ==
    IF cfg.BucketPath # <<>> THEN pathJoin(cfg.BucketPath, f.rel) ELSE f.rel

\* plan's decision for one local file against the remote listing.
Classify(f, rf) ==
    LET bucketPath == planBucketPath(f)
    IN IF bucketPath \in DOMAIN rf
       THEN IF Forced THEN [up |-> TRUE, reason |-> "force", found |-> TRUE,
                               bucketPath |-> bucketPath]
            ELSE [up |-> shouldThisReplace(f, rf[bucketPath]).up,
                  reason |-> shouldThisReplace(f, rf[bucketPath]).reason,
                  found |-> TRUE, bucketPath |-> bucketPath]
       ELSE [up |-> TRUE, reason |-> "not found", found |-> FALSE,
             bucketPath |-> bucketPath]

\* SkipStats, were skipFile only to print.
SkipStatsNone(n) == n

\* skipFile: atomic.AddUint64(&d.stats.Skipped, uint64(1)).
SkipStats(n) == n + 1

\* plan's loop body: one file received from the walker (the two meet on the
\* unbuffered localFiles), classified, its key removed from remoteFiles, and
\* either skipped or taken to enqueueUpload.
PlanRecv ==
    /\ mainPc = "loop"
    /\ wPc = "send"
    /\ LET c == Classify(wFile, remoteFiles)
       IN /\ remoteFiles' = IF c.found THEN MapDelete(remoteFiles, c.bucketPath)
                            ELSE remoteFiles
          /\ IF c.up
             THEN /\ pf' = [wFile EXCEPT !.reason = c.reason]
                  /\ mainPc' = "send"
                  /\ UNCHANGED <<stats, unchanged>>
             ELSE /\ stats' = [stats EXCEPT !.Skipped = SkipStats(@)]
                  /\ unchanged' = unchanged \cup {wFile.key}
                  /\ UNCHANGED <<pf, mainPc>>
          /\ IF c.found /\ ~Forced /\ comparesETag(wFile, remoteFiles[c.bucketPath])
             THEN /\ etagInit' = etagInit \cup {wFile.key}
                  /\ etagLog' = IF etagInitDone(wFile) THEN etagLog
                                ELSE Append(etagLog, wFile.key)
             ELSE UNCHANGED etagVars
    /\ received' = received \cup {wFile.key}
    /\ wPc' = "walk"
    /\ wIdx' = wIdx + 1
    /\ wFile' = NoFile
    /\ UNCHANGED <<inputVars, bucket, planErr, upClosed, filesToDelete, wErr, lfClosed,
                   wk, groupVars, changedKeys, deleteVars, result, putLog, putFailed,
                   listed, invalidations>>

\* EnqueueDoneReady, were enqueueUpload a plain send.
EnqueueNeverDone == FALSE

\* enqueueUpload's select: the case <-ctx.Done() is ready.
EnqueueDoneReady == ctxDone

\* enqueueUpload, case <-ctx.Done(): the file is dropped.
EnqueueCtxDone ==
    /\ mainPc = "send"
    /\ EnqueueDoneReady
    /\ pf' = NoFile
    /\ mainPc' = "loop"
    /\ UNCHANGED <<inputVars, bucket, planErr, remoteFiles, upClosed, filesToDelete,
                   walkVars, wk, groupVars, stats, changedKeys, deleteVars, result,
                   histVars, invalidations>>

\* UploadReady, were a file handed over whatever the state of the context.
UploadReadyCancelled(w) == mainPc = "send" /\ wk[w].pc = "select"

\* The planner in enqueueUpload and a worker in upload both select on
\* filesToUpload and on ctx.Done().  A goroutine that reaches its select after
\* the context is cancelled finds Done ready and no partner parked (a partner
\* parked before was woken by the close of Done), so the two exchange a file only
\* while the context is not cancelled.
UploadReady(w) ==
    /\ mainPc = "send"
    /\ wk[w].pc = "select"
    /\ ~ctxDone

\* enqueueUpload's send meeting upload's receive: the worker takes the file and
\* calls store.Put with it.
Dispatch(w) ==
    /\ UploadReady(w)
    /\ wk' = [wk EXCEPT ![w] = [pc |-> "put", f |-> pf]]
    /\ putLog' = putLog \cup {pf.key}
    /\ pf' = NoFile
    /\ mainPc' = "loop"
    /\ UNCHANGED <<inputVars, bucket, planErr, remoteFiles, upClosed, filesToDelete,
                   walkVars, groupVars, stats, changedKeys, deleteVars, result,
                   putFailed, listed, received, unchanged, etagVars, invalidations>>

\* All orders of a finite set: the order of a Go map iteration.
Orders(S) ==
    {s \in [1..Cardinality(S) -> S] : \A i, j \in 1..Cardinality(S) : s[i] = s[j] => i = j}

\* The keys plan leaves for deletion.
DeleteCandidates(rf) == {k \in DOMAIN rf : ~shouldIgnoreRemote(cfg, k)}

\* plan after its loop: localFiles is closed and drained; plan closes
\* filesToUpload, collects the remaining remote keys and returns nil.
PlanClose ==
    /\ mainPc = "loop"
    /\ lfClosed
    /\ upClosed' = TRUE
    /\ filesToDelete' \in Orders(DeleteCandidates(remoteFiles))
    /\ mainPc' = "wait"
    /\ UNCHANGED <<inputVars, bucket, planErr, remoteFiles, pf, walkVars, wk, groupVars,
                   stats, changedKeys, deleteVars, result, histVars, invalidations>>

\* ------------------------------------------------------------------- walk

\* newOSFile: the file is opened and read into memory, its route looked up.
newOSFile(rel) ==
    [rel |-> rel, key |-> Key(cfg.BucketPath, rel), size |-> LocalSize(rel),
     etag |-> LocalETag(rel), reason |-> ""]

\* f.route != nil && f.route.Ignore, for the route newOSFile found.
RouteIgnores(rel) ==
    LET j == RoutesGet(cfg.Routes, rel)
    IN j # 0 /\ cfg.Routes[j].Ignore

\* The group of a local file: orders.get on its path.
GroupOf(rel) == OrdersGet(cfg.Order, rel)

\* The files of group g, in walk order.
GroupFiles(g) == SelectSeq(tree, LAMBDA r : GroupOf(r) = g)

\* The local files group by group, group 0 (no order expression matches)
\* first: the order in which the files are processed.  Without order
\* expressions this is the walk order.
RECURSIVE ProcsFrom(_)
ProcsFrom(g) ==
    IF g > Len(cfg.Order) THEN <<>> ELSE GroupFiles(g) \o ProcsFrom(g + 1)

Procs == ProcsFrom(0)

\* GroupBarrier, were a group taken up while the one before is still uploading.
NoBarrier == TRUE

\* Groups are processed as a strict sequence of upload phases: the first file
\* of a group is taken up only when no file of the groups before it is still
\* with the planner or a worker.
GroupBarrier ==
    IF wIdx = 1 THEN TRUE
    ELSE \/ GroupOf(Procs[wIdx]) = GroupOf(Procs[wIdx - 1])
         \/ /\ mainPc = "loop"
            /\ \A w \in Workers : wk[w].pc # "put"

\* The walk callback for one file, up to its select: the file is ignored by
\* the -ignore patterns, or opening it fails and the walk ends with that error,
\* or its route is marked ignore, or the walker goes to offer it on localFiles.
WalkFile ==
    /\ wPc = "walk"
    /\ wIdx <= Len(Procs)
    /\ GroupBarrier
    /\ LET rel == Procs[wIdx]
       IN \/ /\ shouldIgnoreLocal(cfg, rel)
             /\ wIdx' = wIdx + 1
             /\ UNCHANGED <<wPc, wFile, wErr, lfClosed>>
          \/ /\ ~shouldIgnoreLocal(cfg, rel)
             /\ wErr' = Err("open", rel)
             /\ lfClosed' = TRUE
             /\ wPc' = "failed"
             /\ UNCHANGED <<wIdx, wFile>>
          \/ /\ ~shouldIgnoreLocal(cfg, rel)
             /\ RouteIgnores(rel)
             /\ wIdx' = wIdx + 1
             /\ UNCHANGED <<wPc, wFile, wErr, lfClosed>>
          \/ /\ ~shouldIgnoreLocal(cfg, rel)
             /\ ~RouteIgnores(rel)
             /\ wFile' = newOSFile(rel)
             /\ wPc' = "send"
             /\ UNCHANGED <<wIdx, wErr, lfClosed>>
    /\ UNCHANGED <<inputVars, bucket, mainPc, planVars, wk, groupVars, stats, changedKeys,
                   deleteVars, result, histVars, invalidations>>

\* filepath.Walk has visited every file: walk closes localFiles and returns nil.
WalkEnd ==
    /\ wPc = "walk"
    /\ wIdx > Len(Procs)
    /\ lfClosed' = TRUE
    /\ wPc' = "exited"
    /\ UNCHANGED <<inputVars, bucket, mainPc, planVars, wIdx, wFile, wErr, wk, groupVars,
                   stats, changedKeys, deleteVars, result, histVars, invalidations>>

\* The walk callback's select, case <-ctx.Done(): the walk ends with ctx.Err(),
\* walk closes localFiles and returns it.
WalkCtxDone ==
    /\ wPc = "send"
    /\ ctxDone
    /\ wErr' = Canceled
    /\ wFile' = NoFile
    /\ lfClosed' = TRUE
    /\ wPc' = "failed"
    /\ UNCHANGED <<inputVars, bucket, mainPc, planVars, wIdx, wk, groupVars, stats,
                   changedKeys, deleteVars, result, histVars, invalidations>>

\* WalkResult, were walk to return nil whatever filepath.Walk ended with.
WalkResultNil == NoErr

\* walk's last statement: return err, the error filepath.Walk ended with.
WalkResult == wErr

\* The errgroup receives the error walk returned.
WalkReturnErr ==
    /\ wPc = "failed"
    /\ GroupRecord(WalkResult)
    /\ wPc' = "exited"
    /\ UNCHANGED <<inputVars, bucket, mainPc, planVars, wIdx, wFile, wErr, lfClosed, wk,
                   stats, changedKeys, deleteVars, result, histVars, invalidations>>

\* ----------------------------------------------------------------- upload

\* trackChanged, were the store not to remember the keys it changed.
trackNothing(keys) == changedKeys

\* store.trackChanged: s.changedKeys = append(s.changedKeys, keys...)
trackChanged(keys) == changedKeys \o keys

\* PutObject, were the backend to fingerprint what it stores in its own way.
PutObjectOther(f) == [size |-> f.size, etag |-> "M"]

\* s3Store.Put: one PutObject request with Body f.Content() and ContentLength
\* f.Size(); the stored object's ETag is the MD5 of that body, which is what
\* the local file's ETag is computed from.
PutObject(f) == [size |-> f.size, etag |-> f.etag]

\* UploadStats, were the counter read and written in two steps: the increment
\* of a Put that ends while another Put is in progress is lost.
UploadStatsRacy(n) ==
    IF Cardinality({w \in Workers : wk[w].pc = "put"}) >= 2 THEN n ELSE n + 1

\* UploadStats, were an upload counted only when the backend stored it.
UploadStatsRealOnly(n) == IF cfg.Try THEN n ELSE n + 1

\* store.Put, err == nil: conf.statsCollector(1, 0), the collector of
\* withUploadStats: atomic.AddUint64(&stats.Uploaded, 1).
UploadStats(n) == n + 1

\* store.Put returning nil: the delegate stored the object (noUpdateStore, the
\* delegate of a trial run, stores nothing), the key is tracked as changed and
\* counted as uploaded; the worker is back at its select.
PutOk(w) ==
    /\ wk[w].pc = "put"
    /\ LET f == wk[w].f
       IN /\ bucket' = IF TrialRun THEN bucket
                       ELSE [k \in DOMAIN bucket \cup {f.key} |->
                                IF k = f.key THEN PutObject(f)
                                ELSE bucket[k]]
          /\ changedKeys' = trackChanged(<<f.key>>)
    /\ stats' = [stats EXCEPT !.Uploaded = UploadStats(@)]
    /\ wk' = [wk EXCEPT ![w] = [pc |-> "select", f |-> NoFile]]
    /\ UNCHANGED <<inputVars, mainPc, planVars, walkVars, groupVars, deleteVars, result,
                   histVars, invalidations>>

\* store.Put returning the delegate's error: upload returns it.  The delegate
\* of a trial run never fails.
PutFail(w) ==
    /\ wk[w].pc = "put"
    /\ ~TrialRun
    /\ wk' = [wk EXCEPT ![w].pc = "failed"]
    /\ putFailed' = putFailed \cup {wk[w].f.key}
    /\ UNCHANGED <<inputVars, bucket, mainPc, planVars, walkVars, groupVars, stats,
                   changedKeys, deleteVars, result, putLog, listed, received, unchanged,
                   etagVars, invalidations>>

\* The errgroup receives the error upload returned from Put.
UploadReturnErr(w) ==
    /\ wk[w].pc = "failed"
    /\ GroupRecord(Err("put", wk[w].f.key))
    /\ wk' = [wk EXCEPT ![w] = [pc |-> "exited", f |-> NoFile]]
    /\ UNCHANGED <<inputVars, bucket, mainPc, planVars, walkVars, stats, changedKeys,
                   deleteVars, result, histVars, invalidations>>

\* upload's select, the receive on the closed filesToUpload: return nil.
UploadClosed(w) ==
    /\ wk[w].pc = "select"
    /\ upClosed
    /\ wk' = [wk EXCEPT ![w].pc = "exited"]
    /\ UNCHANGED <<inputVars, bucket, mainPc, planVars, walkVars, groupVars, stats,
                   changedKeys, deleteVars, result, histVars, invalidations>>

\* upload's select, case <-ctx.Done(): return ctx.Err(), which the errgroup
\* receives.
UploadCtxDone(w) ==
    /\ wk[w].pc = "select"
    /\ ctxDone
    /\ GroupRecord(Canceled)
    /\ wk' = [wk EXCEPT ![w].pc = "exited"]
    /\ UNCHANGED <<inputVars, bucket, mainPc, planVars, walkVars, stats, changedKeys,
                   deleteVars, result, histVars, invalidations>>

\* ----------------------------------------------------------------- Deploy

\* GroupWaitDone, were g.Wait() to wait for the walker only.
GroupWaitWalkerOnly == wPc \in {"notstarted", "exited"}

\* g.Wait() returns: every function started with g.Go has returned (the
\* workers, and the walker when plan started it).
GroupWaitDone ==
    /\ \A w \in Workers : wk[w].pc = "exited"
    /\ wPc \in {"notstarted", "exited"}

\* Deploy returns the statistics and err.
Return(err) ==
    /\ result' = [returned |-> TRUE, err |-> err, stats |-> stats']
    /\ mainPc' = "returned"

\* PlanFailed, were Deploy not to look at the error plan returned.
PlanErrIgnored == FALSE

\* Deploy after g.Wait(): if err != nil, for the error plan returned.
PlanFailed == planErr # NoErr

\* GroupErrFatal, were Deploy to go on whatever g.Wait() returned.
GroupErrIgnored(errg) == FALSE

\* Deploy after g.Wait(): if errg != nil && errg != context.Canceled.
GroupErrFatal(errg) == errg # NoErr /\ errg # Canceled

\* Deploy from g.Wait() to the call of DeleteObjects: plan's error is returned,
\* else the group's error unless it is context.Canceled.
DeployWait ==
    /\ mainPc = "wait"
    /\ GroupWaitDone
    /\ UNCHANGED stats
    /\ IF PlanFailed THEN Return(planErr)
       ELSE IF GroupErrFatal(gErr) THEN Return(gErr)
       ELSE mainPc' = "delete" /\ UNCHANGED result
    /\ UNCHANGED <<inputVars, bucket, planVars, walkVars, wk, groupVars, changedKeys,
                   deleteVars, histVars, invalidations>>

Min(a, b) == IF a < b THEN a ELSE b

\* chunkStrings
chunkStrings(s, size) ==
    IF Len(s) = 0 THEN <<>>
    ELSE LET n == (Len(s) + size - 1) \div size
         IN [i \in 1..n |-> SubSeq(s, (i - 1) * size + 1, Min(i * size, Len(s)))]

\* ChunkSize, were the batches cut at the backend's maximum only.
ChunkSizeBackend(maxDelete) == MaxChunk

\* store.DeleteObjects: chunkSize
ChunkSize(maxDelete) == IF maxDelete < MaxChunk THEN maxDelete ELSE MaxChunk

\* store.DeleteObjects up to its loop: nothing to do for no keys or a ceiling
\* that is not positive; otherwise the keys are split into batches.
DeleteStart ==
    /\ mainPc = "delete"
    /\ IF Len(filesToDelete) = 0 \/ cfg.MaxDelete <= 0
       THEN /\ mainPc' = "finalize"
            /\ UNCHANGED <<keyChunks, dIdx, deleted>>
       ELSE /\ keyChunks' = chunkStrings(filesToDelete, ChunkSize(cfg.MaxDelete))
            /\ dIdx' = 1
            /\ deleted' = 0
            /\ mainPc' = "deleteloop"
    /\ UNCHANGED <<inputVars, bucket, planVars, walkVars, wk, groupVars, stats,
                   changedKeys, deleteCalls, result, histVars, invalidations>>

\* One pass of the loop of store.DeleteObjects in which the delegate deletes
\* the batch: the keys are tracked as changed and counted, and the loop ends
\* when the ceiling is reached or the batches are used up.
DeleteBatchOk ==
    /\ mainPc = "deleteloop"
    /\ LET keyChunk == keyChunks[dIdx]
           del == deleted + Len(keyChunk)
           gone == {keyChunk[i] : i \in 1..Len(keyChunk)}
       IN /\ deleteCalls' = Append(deleteCalls, keyChunk)
          /\ bucket' = IF TrialRun THEN bucket
                       ELSE [k \in DOMAIN bucket \ gone |-> bucket[k]]
          /\ changedKeys' = trackChanged(keyChunk)
          /\ deleted' = del
          /\ IF del >= cfg.MaxDelete
             THEN /\ stats' = [stats EXCEPT !.Deleted = @ + del,
                                            !.Stale = @ + (Len(filesToDelete) - del)]
                  /\ mainPc' = "finalize"
                  /\ UNCHANGED dIdx
             ELSE /\ stats' = [stats EXCEPT !.Deleted = @ + del]
                  /\ IF dIdx < Len(keyChunks)
                     THEN dIdx' = dIdx + 1 /\ UNCHANGED mainPc
                     ELSE mainPc' = "finalize" /\ UNCHANGED dIdx
    /\ UNCHANGED <<inputVars, planVars, walkVars, wk, groupVars, keyChunks, result,
                   histVars, invalidations>>

\* DeleteErr, were store.DeleteObjects to swallow the delegate's error.
DeleteErrSwallowed == NoErr

\* store.DeleteObjects: if err != nil { return err }, for the error of the
\* delegate's delete call.
DeleteErr == Err("delete", <<>>)

\* DeleteOk, were Deploy to call Finalize whatever DeleteObjects returned.
DeleteOkAlways(err) == TRUE

\* Deploy after DeleteObjects: if err == nil, the condition of Finalize.
DeleteOk(err) == err = NoErr

\* One pass of the loop in which the delegate fails: DeleteObjects returns the
\* error and Deploy returns it.
DeleteBatchFail ==
    /\ mainPc = "deleteloop"
    /\ ~TrialRun
    /\ deleteCalls' = Append(deleteCalls, keyChunks[dIdx])
    /\ UNCHANGED stats
    /\ IF DeleteOk(DeleteErr)
       THEN mainPc' = "finalize" /\ UNCHANGED result
       ELSE Return(DeleteErr)
    /\ UNCHANGED <<inputVars, bucket, planVars, walkVars, wk, groupVars, changedKeys,
                   keyChunks, dIdx, deleted, histVars, invalidations>>

\* noPaths, were a request made for an empty list too.
noPathsNever(paths) == FALSE

\* InvalidateCDNCache: if len(paths) == 0 { return nil }
noPaths(paths) == Len(paths) = 0

\* store.Finalize: the CDN cache is invalidated for the changed keys (no
\* request is made for no keys, and none by the delegate of a trial run, which
\* prints the keys); Deploy returns its error.
Finalize ==
    /\ mainPc = "finalize"
    /\ UNCHANGED stats
    /\ \/ /\ noPaths(changedKeys) \/ TrialRun
          /\ UNCHANGED invalidations
          /\ Return(NoErr)
       \/ /\ ~noPaths(changedKeys) /\ ~TrialRun
          /\ invalidations' = Append(invalidations, changedKeys)
          /\ Return(NoErr)
       \/ /\ ~noPaths(changedKeys) /\ ~TrialRun
          /\ invalidations' = Append(invalidations, changedKeys)
          /\ Return(Err("cdn", <<>>))
    /\ UNCHANGED <<inputVars, bucket, planVars, walkVars, wk, groupVars, changedKeys,
                   deleteVars, histVars>>

\* ------------------------------------------------------- a second Deploy
\* Deploy called again once it has returned nil: the local tree is the same, the
\* bucket is as the first call left it, and the configuration is the same but
\* for the trial flag, which is off (a trial is followed by the real run).
\* What the first call returned and left behind is kept for comparison.
Rerun ==
    /\ mainPc = "returned" /\ result.err = NoErr /\ prior.runs = 0
    /\ prior' = [runs |-> 1, try |-> cfg.Try, stats |-> result.stats,
                 left |-> {filesToDelete[i] : i \in DOMAIN filesToDelete}
                              \cap DOMAIN bucket]
    /\ cfg' = [cfg EXCEPT !.Try = FALSE]
    /\ mainPc' = "init"
    /\ planErr' = NoErr
    /\ remoteFiles' = <<>>
    /\ pf' = NoFile
    /\ wPc' = "notstarted"
    /\ wIdx' = 1
    /\ wFile' = NoFile
    /\ wErr' = NoErr
    /\ lfClosed' = FALSE
    /\ upClosed' = FALSE
    /\ wk' = [w \in Workers |-> [pc |-> "select", f |-> NoFile]]
    /\ gErr' = NoErr
    /\ ctxDone' = FALSE
    /\ filesToDelete' = <<>>
    /\ stats' = [Deleted |-> 0, Stale |-> 0, Uploaded |-> 0, Skipped |-> 0]
    /\ changedKeys' = <<>>
    /\ keyChunks' = <<>>
    /\ dIdx' = 1
    /\ deleted' = 0
    /\ result' = NoResult
    /\ putLog' = {}
    /\ putFailed' = {}
    /\ listed' = {}
    /\ received' = {}
    /\ unchanged' = {}
    /\ etagInit' = {}
    /\ etagLog' = <<>>
    /\ deleteCalls' = <<>>
    /\ invalidations' = <<>>
    /\ UNCHANGED <<tree, bucket, cdn, initOnce, initCalls, grp>>

\* ------------------------------------------------------------ specification

Next ==
    \/ DeployInit
    \/ PlanFileMap
    \/ DeployCancel
    \/ PlanRecv
    \/ EnqueueCtxDone
    \/ \E w \in Workers : Dispatch(w)
    \/ PlanClose
    \/ WalkFile
    \/ WalkEnd
    \/ WalkCtxDone
    \/ WalkReturnErr
    \/ \E w \in Workers : PutOk(w)
    \/ \E w \in Workers : PutFail(w)
    \/ \E w \in Workers : UploadReturnErr(w)
    \/ \E w \in Workers : UploadClosed(w)
    \/ \E w \in Workers : UploadCtxDone(w)
    \/ DeployWait
    \/ DeleteStart
    \/ DeleteBatchOk
    \/ DeleteBatchFail
    \/ Finalize

Spec == Init /\ [][Next]_vars

\* Every goroutine that can take a step is scheduled, and every backend call
\* returns: some enabled step is eventually taken.
FairSpec == Spec /\ WF_vars(Next)

\* ------------------------------------------- the change detector's inputs
\* Sizes and ETags of a remote object: those of the local file and others.
FileSizes == {0, 1, 2}
ETags == {"L", "R", ""}
FileObjs == [size : FileSizes, etag : ETags]

\* A plain run with two workers of the three local files against a bucket in
\* which the first file's key holds any object, the second file's key holds
\* the local content, and a key without a local file is to be deleted.
ReplaceInit ==
    /\ cfg = [BucketPath |-> <<>>, Force |-> FALSE, Try |-> FALSE, MaxDelete |-> 256,
              NumberOfWorkers |-> MaxWorkers, Ignore |-> {}, Routes |-> <<>>,
              Order |-> <<>>, Flags |-> ValidFlags]
    /\ tree = <<RelA, RelB, RelC>>
    /\ prior = NoPrior
    /\ cdn = NoCdn
    /\ initOnce = FALSE
    /\ initCalls = <<>>
    /\ grp = NoGrp
    /\ \E o \in FileObjs :
          bucket = (RelA :> o @@ RelB :> RemoteObj("same") @@ RelD :> RemoteObj("same"))
    /\ InitRun

ReplaceSpec == ReplaceInit /\ [][Next]_vars

\* Deploy with four local files of which the first three have no remote
\* object, or the first has one with another fingerprint, with one worker and
\* with the largest count.
MemInit ==
    /\ \E nw \in {1, MaxWorkers} :
          cfg = [BucketPath |-> <<>>, Force |-> FALSE, Try |-> FALSE, MaxDelete |-> 256,
                 NumberOfWorkers |-> nw, Ignore |-> {}, Routes |-> <<>>,
                 Order |-> <<>>, Flags |-> ValidFlags]
    /\ tree = <<RelA, RelB, RelC, RelD>>
    /\ prior = NoPrior
    /\ cdn = NoCdn
    /\ initOnce = FALSE
    /\ initCalls = <<>>
    /\ grp = NoGrp
    /\ bucket \in { (RelD :> RemoteObj("same") @@ RelE :> RemoteObj("same")),
                     (RelA :> RemoteObj("etag") @@ RelE :> RemoteObj("same")) }
    /\ InitRun

MemSpec == MemInit /\ [][Next]_vars

\* The most calls of Config.Init a caller makes before it calls Deploy.
MaxInitCalls == 2

\* The caller of the library calls Config.Init on the Config it is going to
\* pass to Deploy (as the tests of the package do).
CallInit ==
    /\ mainPc = "init"
    /\ Len(initCalls) < MaxInitCalls
    /\ initOnce' = TRUE
    /\ initCalls' = Append(initCalls, ConfigInit)
    /\ UNCHANGED <<cfg, tree, prior, cdn, grp, bucket, mainPc, planVars, walkVars, wk,
                   groupVars, stats, changedKeys, deleteVars, result, histVars,
                   invalidations>>

\* Deploy on a Config the caller may have initialised.
InitNext == Next \/ CallInit

\* The runs of a plain configuration with one worker, under every setting of
\* the flags Config.init checks.
InitInit ==
    /\ Init
    /\ cfg.NumberOfWorkers = 1 /\ ~cfg.Force /\ ~cfg.Try
    /\ cfg.Ignore = {} /\ cfg.Routes = <<>> /\ cfg.Order = <<>>

InitSpec == InitInit /\ [][InitNext]_vars

\* Two Deploy calls in a row.
TwoRuns == Next \/ Rerun

TwoRunSpec == Init /\ [][TwoRuns]_vars

\* -------------------------------------------- the deletion phase, at scale

\* Key number i of a large bucket.
NumKey(i) == <<i>>

\* The sizes of the delete-candidate list: none, one, a few hundred, and from
\* one and from two full backend batches on.
DelCounts ==
    {0, 1, 200} \cup {MaxChunk + k : k \in 0..MaxExtraKeys}
                \cup {2 * MaxChunk + k : k \in 0..MaxExtraKeys}

\* The -max-delete ceilings: none, below, at and above the backend's batch size.
DelCeilings == {0, 42, 256, MaxChunk, MaxChunk + 1, 2 * MaxChunk, 3 * MaxChunk}

DelConfigs ==
    { [BucketPath |-> <<>>, Force |-> FALSE, Try |-> tr, MaxDelete |-> md,
       NumberOfWorkers |-> 1, Ignore |-> {}, Routes |-> <<>>, Order |-> <<>>,
       Flags |-> ValidFlags] :
        tr \in BOOLEAN, md \in DelCeilings }

\* Deploy at its call of DeleteObjects, in a run with an empty local tree
\* against a bucket of n objects: plan has listed them and left them all for
\* deletion, the walker and the worker have returned.
DelInit ==
    /\ cfg \in DelConfigs
    /\ tree = <<>>
    /\ prior = NoPrior
    /\ cdn = NoCdn
    /\ initOnce = FALSE
    /\ initCalls = <<>>
    /\ grp = NoGrp
    /\ \E n \in DelCounts :
          /\ bucket = [k \in {NumKey(i) : i \in 1..n} |-> RemoteObj("same")]
          /\ filesToDelete = [i \in 1..n |-> NumKey(i)]
    /\ remoteFiles = bucket
    /\ listed = DOMAIN bucket
    /\ mainPc = "delete"
    /\ planErr = NoErr
    /\ pf = NoFile
    /\ wPc = "exited"
    /\ wIdx = 1
    /\ wFile = NoFile
    /\ wErr = NoErr
    /\ lfClosed = TRUE
    /\ upClosed = TRUE
    /\ wk = [w \in Workers |-> [pc |-> "exited", f |-> NoFile]]
    /\ gErr = NoErr
    /\ ctxDone = FALSE
    /\ stats = [Deleted |-> 0, Stale |-> 0, Uploaded |-> 0, Skipped |-> 0]
    /\ changedKeys = <<>>
    /\ keyChunks = <<>>
    /\ dIdx = 1
    /\ deleted = 0
    /\ result = NoResult
    /\ putLog = {}
    /\ putFailed = {}
    /\ received = {}
    /\ unchanged = {}
    /\ etagInit = {}
    /\ etagLog = <<>>
    /\ deleteCalls = <<>>
    /\ invalidations = <<>>

DelNext ==
    \/ DeleteStart
    \/ DeleteBatchOk
    \/ DeleteBatchFail
    \/ Finalize

DelSpec == DelInit /\ [][DelNext]_vars

\* ------------------------------------------------------- the CDN reducer
\* normalizeInvalidationPaths, the loop over the paths: the path is cleaned and
\* given a leading slash, and a path that ends in index.html is replaced by its
\* directory with a trailing slash.
normalizePath(p0) ==
    LET p1 == PathClean(p0)
        p == IF ~HasPrefix(p1, <<"/">>) THEN <<"/">> \o p1 ELSE p1
    IN IF HasSuffix(p, <<"i", "n", "d", "e", "x", ".", "h", "t", "m", "l">>)
       THEN LET dir == PathDir(p)
            IN IF ~HasSuffix(dir, <<"/">>) THEN dir \o <<"/">> ELSE dir
       ELSE p

\* strings.Count(p, "/") of the cleaned path with its leading slash.
levelsOf(p0) ==
    LET p1 == PathClean(p0)
    IN StrCount(IF ~HasPrefix(p1, <<"/">>) THEN <<"/">> \o p1 ELSE p1, "/")

RECURSIVE MaxOf(_)
MaxOf(q) ==
    IF q = <<>> THEN 0
    ELSE LET m == MaxOf(Tail(q)) IN IF q[1] > m THEN q[1] ELSE m

\* The body of the inner loop: a pattern with more than k slashes is replaced
\* by the wildcard of the directory above its own (of its own directory when
\* that has one element only).
collapseAt(p, k) ==
    IF StrCount(p, "/") > k
    THEN LET parts == StrSplit(TrimPrefix(PathDir(p), <<"/">>))
             upper == IF Len(parts) > 1 THEN SubSeq(parts, 1, Len(parts) - 1) ELSE parts
         IN <<"/">> \o PathJoin(upper) \o <<"/", "*">>
    ELSE p

\* for k := maxlevels; k > 0; k--: collapse, uniqueStrings, break when the
\* threshold is met.
RECURSIVE collapseLevels(_, _, _)
collapseLevels(normalized, k, threshold) ==
    IF k <= 0 THEN normalized
    ELSE LET next == uniqueStrings([i \in 1..Len(normalized) |->
                                       collapseAt(normalized[i], k)])
         IN IF Len(next) <= threshold THEN next
            ELSE collapseLevels(next, k - 1, threshold)

\* clearsAll, were the reducer not to look at force.
clearsNever(force) == FALSE

\* if force { return clearAll }
clearsAll(force) == force

\* givesUp, were the reducer to return what the collapsing left.
givesUpNever(normalized, threshold) == FALSE

\* After the loop: if len(normalized) > threshold { return clearAll } ("Give up").
givesUp(normalized, threshold) == Len(normalized) > threshold

\* cloudFrontClient.normalizeInvalidationPaths
normalizeInvalidationPaths(root0, threshold, force, paths) ==
    LET root == IF ~HasPrefix(root0, <<"/">>) THEN <<"/">> \o root0 ELSE root0
        matchAll == PathJoin(<<root, <<"*">>>>)
        clearAll == <<matchAll>>
        maxlevels == MaxOf([i \in 1..Len(paths) |-> levelsOf(paths[i])])
        sorted == sortStrings(uniqueStrings([i \in 1..Len(paths) |->
                                                normalizePath(paths[i])]))
        normalized == IF Len(sorted) > threshold
                      THEN collapseLevels(sorted, maxlevels, threshold)
                      ELSE sorted
    IN IF clearsAll(force) THEN clearAll
       ELSE IF givesUp(normalized, threshold) THEN clearAll
       ELSE IF \E i \in 1..Len(normalized) : normalized[i] = matchAll THEN clearAll
       ELSE normalized

\* The longest path list.
MaxPaths == 3

\* The threshold InvalidateCDNCache passes.
ProdThreshold == 8

Thresholds == {0, 1, 2, ProdThreshold}

\* Web context roots: none, the top, a directory.
CdnRoots == { <<>>, <<"/">>, <<"r">>, <<"/", "r">> }

IndexHtml == <<"i", "n", "d", "e", "x", ".", "h", "t", "m", "l">>

\* Changed keys as InvalidateCDNCache passes them on: files at the top and in
\* directories one to three deep, index pages, a file whose name ends in
\* index.html, a key with a leading slash, a key below the root directory and
\* a key with a trailing slash (a folder marker).
AllCdnPaths ==
    << IndexHtml,
       <<"a", "/">> \o IndexHtml,
       <<"a", "/", "m", "y">> \o IndexHtml,
       <<"s">>,
       <<"a", "/", "x">>,
       <<"/", "a", "/", "x">>,
       <<"a", "/", "b", "/", "x">>,
       <<"a", "/", "b", "/", "y">>,
       <<"b", "/", "x">>,
       <<"a", "/", "b", "/", "c", "/", "x">>,
       <<"r", "/", "a", "/", "x">>,
       <<"a", "/">> >>

CdnPaths == {AllCdnPaths[i] : i \in 1..Len(AllCdnPaths)}

\* Ten files in ten directories.
ManyDirs == [i \in 1..10 |-> <<Alphabet[i + 3], "/", "x">>]

\* Every list of up to MaxPaths of the keys, and three long lists: all the
\* keys, all the keys below the root directory, files in ten directories.
CdnPathLists ==
    UNION {[1..n -> CdnPaths] : n \in 0..MaxPaths}
    \cup { AllCdnPaths,
           [i \in 1..Len(AllCdnPaths) |-> <<"r", "/">> \o AllCdnPaths[i]],
           ManyDirs }

\* The CDN client about to reduce a list of changed keys; no Deploy is running.
RedInit ==
    /\ cfg = [BucketPath |-> <<>>, Force |-> FALSE, Try |-> FALSE, MaxDelete |-> 256,
              NumberOfWorkers |-> 1, Ignore |-> {}, Routes |-> <<>>, Order |-> <<>>,
              Flags |-> ValidFlags]
    /\ tree = <<>>
    /\ bucket = <<>>
    /\ prior = NoPrior
    /\ initOnce = FALSE
    /\ initCalls = <<>>
    /\ grp = NoGrp
    /\ InitRun
    /\ \E root \in CdnRoots, threshold \in Thresholds, force \in BOOLEAN,
          paths \in CdnPathLists :
          cdn = [called |-> FALSE, root |-> root, threshold |-> threshold,
                 force |-> force, paths |-> paths]

\* InvalidateCDNCache: paths = c.normalizeInvalidationPaths(root, 8, c.force,
\* paths...), for any threshold.
Normalize ==
    /\ ~cdn.called /\ "paths" \in DOMAIN cdn
    /\ cdn' = [called |-> TRUE, root |-> cdn.root, threshold |-> cdn.threshold,
               force |-> cdn.force, paths |-> cdn.paths,
               out |-> normalizeInvalidationPaths(cdn.root, cdn.threshold, cdn.force,
                                                  cdn.paths)]
    /\ UNCHANGED <<cfg, tree, prior, initOnce, initCalls, grp, bucket, mainPc, planVars, walkVars, wk,
                   groupVars,
                   stats, changedKeys, deleteVars, result, histVars, invalidations>>

RedSpec == RedInit /\ [][Normalize]_vars

\* ----------------------------------------------------------- the grouping

\* The longest list of order expressions.
MaxOrders == 3

\* The local files grouped.
GrpFiles == <<RelA, RelB, RelC>>

\* The order expressions: an expression is the set of the files it matches,
\* from none of them to all.
OrderExprs == SUBSET {RelA, RelB, RelC}

\* Every list of up to MaxOrders order expressions.
OrderLists == UNION {[1..n -> OrderExprs] : n \in 0..MaxOrders}

\* The local files of a run about to be grouped; no Deploy is running.
GrpInit ==
    /\ cfg = [BucketPath |-> <<>>, Force |-> FALSE, Try |-> FALSE, MaxDelete |-> 256,
              NumberOfWorkers |-> 1, Ignore |-> {}, Routes |-> <<>>, Order |-> <<>>,
              Flags |-> ValidFlags]
    /\ tree = GrpFiles
    /\ bucket = <<>>
    /\ prior = NoPrior
    /\ cdn = NoCdn
    /\ initOnce = FALSE
    /\ initCalls = <<>>
    /\ InitRun
    /\ \E o \in OrderLists : grp = [called |-> FALSE, order |-> o]

\* Every local file is given the group orders.get returns for its path.
Group ==
    /\ ~grp.called /\ "order" \in DOMAIN grp
    /\ grp' = [called |-> TRUE, order |-> grp.order,
               out |-> [i \in 1..Len(tree) |-> OrdersGet(grp.order, tree[i])]]
    /\ UNCHANGED <<cfg, tree, prior, cdn, initOnce, initCalls, bucket, mainPc, planVars,
                   walkVars, wk, groupVars, stats, changedKeys, deleteVars, result,
                   histVars, invalidations>>

GrpSpec == GrpInit /\ [][Group]_vars

\* ------------------------------------------------------------------ claims

\* The elements of a sequence.
SeqRange(q) == {q[i] : i \in 1..Len(q)}

\* The keys passed to the backend's delete call so far.
DeletedKeys == UNION {SeqRange(deleteCalls[i]) : i \in 1..Len(deleteCalls)}

RECURSIVE SumLen(_)
SumLen(q) == IF q = <<>> THEN 0 ELSE Len(q[1]) + SumLen(Tail(q))

\* The path of a key relative to the bucket path.
RelOfKey(k) ==
    IF cfg.BucketPath = <<>> THEN k ELSE TrimPrefix(k, cfg.BucketPath \o <<"/">>)

\* An ignore rule matches the path: the ignore pattern, or a route marked
\* ignore, wherever it stands in the route table.
IgnoreRuleMatches(rel) ==
    \/ rel \in cfg.Ignore
    \/ \E j \in 1..Len(cfg.Routes) : cfg.Routes[j].Ignore /\ rel \in cfg.Routes[j].re

\* The keys of the local files.
LocalKeys == {Key(cfg.BucketPath, tree[i]) : i \in 1..Len(tree)}

\* The position of a file in the walk.
WalkPos(rel) == CHOOSE i \in 1..Len(tree) : tree[i] = rel

\* File r comes after file f: in a later ordering group, or in the same group
\* and later in the walk.
ComesAfter(r, f) ==
    \/ OrdersGet(cfg.Order, r) > OrdersGet(cfg.Order, f)
    \/ /\ OrdersGet(cfg.Order, r) = OrdersGet(cfg.Order, f)
       /\ WalkPos(r) > WalkPos(f)

\* C1: the first backend delete call is issued only after every upload worker
\* has returned: from the call of DeleteObjects on every worker has returned,
\* and no Put starts once a delete call has been issued.
C1_DeleteAfterUploads ==
    /\ []((deleteCalls # <<>> \/ mainPc \in {"delete", "deleteloop"}) =>
            \A w \in Workers : wk[w].pc = "exited")
    /\ [][deleteCalls # <<>> => putLog' = putLog]_vars

C1_Witness ==
    /\ deleteCalls # <<>>
    /\ Cardinality(putLog) >= 2
    /\ cfg.NumberOfWorkers >= 2

\* C2: for every candidate list and every ceiling the number of keys deleted
\* from the bucket, and passed to delete calls, never exceeds the max-delete
\* ceiling; and for a positive ceiling, when DeleteObjects has returned without
\* a backend error, the keys deleted are the candidates up to the ceiling, the
\* candidates beyond it are still in the bucket and are counted as stale, and
\* Deploy returns no error on their account.
C2_DeleteCeiling ==
    LET ceiling == IF cfg.MaxDelete > 0 THEN cfg.MaxDelete ELSE 0
        n == Len(filesToDelete)
        beyond == IF n > ceiling THEN n - ceiling ELSE 0
    IN /\ Cardinality(listed \ DOMAIN bucket) <= ceiling
       /\ SumLen(deleteCalls) <= ceiling
       /\ (cfg.MaxDelete > 0 /\ mainPc = "finalize") =>
            /\ SumLen(deleteCalls) = n - beyond
            /\ stats.Stale = beyond
            /\ \A i \in 1..n : i > ceiling => filesToDelete[i] \in DOMAIN bucket
       /\ (mainPc = "returned" /\ result.err # NoErr) =>
            result.err.kind \in {"delete", "cdn"}

C4_IgnoredNeverTouched ==
    \A k \in putLog \cup DeletedKeys : ~IgnoreRuleMatches(RelOfKey(k))

\* C5: when the planner has consumed the local file stream the delete
\* candidates are, each exactly once, the listed remote keys of which no file
\* came down the stream and which no ignore rule excludes; after a walk that
\* visited every file these are the remote keys with no local file of the same
\* key that no ignore rule excludes.
C5_DeleteCandidatesExact ==
    upClosed =>
        /\ \A i, j \in 1..Len(filesToDelete) :
              filesToDelete[i] = filesToDelete[j] => i = j
        /\ SeqRange(filesToDelete) =
              {k \in listed : k \notin received /\ ~IgnoreRuleMatches(RelOfKey(k))}
        /\ wErr = NoErr =>
              SeqRange(filesToDelete) =
                {k \in listed : k \notin LocalKeys /\ ~IgnoreRuleMatches(RelOfKey(k))}

C5_Witness ==
    /\ upClosed
    /\ wErr = NoErr
    /\ Len(filesToDelete) >= 2
    /\ received \cap listed # {}
    /\ \E k \in listed \ received : IgnoreRuleMatches(RelOfKey(k))

C7_DeployReturns == <>(mainPc = "returned")

C7_Witness ==
    /\ mainPc = "send"
    /\ \A w \in Workers : wk[w].pc = "exited"
    /\ wPc = "send"

\* C8: if a Put returned an error, Deploy returns an error, the first one the
\* group recorded, and it returns only after the walker and every worker has
\* returned.
C8_PutErrorReturned ==
    (mainPc = "returned" /\ putFailed # {}) =>
        /\ result.err # NoErr
        /\ result.err = gErr
        /\ \A w \in Workers : wk[w].pc = "exited"
        /\ wPc = "exited"

C8_Witness ==
    /\ mainPc = "returned"
    /\ Cardinality(putFailed) >= 2
    /\ gErr.kind = "put"

\* C9: if listing the remote inventory fails, the run makes no Put call, no
\* delete call and no CDN invalidation, and Deploy returns the listing error.
C9_ListFailure ==
    planErr.kind = "list" =>
        /\ putLog = {}
        /\ deleteCalls = <<>>
        /\ invalidations = <<>>
        /\ mainPc \in {"cancel", "wait", "returned"}
        /\ mainPc = "returned" => result.err = planErr

C9_Witness ==
    /\ mainPc = "returned"
    /\ planErr.kind = "list"
    /\ tree # <<>>
    /\ cfg.NumberOfWorkers >= 2

\* C10: if opening a local file fails, Deploy returns a non-nil error and no
\* file that comes after the failing one (later in the walk, or in a later
\* ordering group) is uploaded, nor the failing file itself.
C10_OpenFailure ==
    wErr.kind = "open" =>
        /\ mainPc \notin {"delete", "deleteloop", "finalize"}
        /\ mainPc = "returned" => result.err # NoErr
        /\ Key(cfg.BucketPath, wErr.key) \notin putLog
        /\ \A i \in 1..Len(tree) :
              ComesAfter(tree[i], wErr.key) => Key(cfg.BucketPath, tree[i]) \notin putLog

C10_Witness ==
    /\ wErr.kind = "open"
    /\ mainPc = "returned"
    /\ cfg.Order # <<>>
    /\ putLog # {}
    /\ \E i \in 1..Len(tree) : ComesAfter(tree[i], wErr.key)

\* A backend delete call has failed: a batch was passed on that was not counted.
BatchFailed == SumLen(deleteCalls) > deleted

\* The keys of the batches the backend deleted before the failing one.
SucceededKeys ==
    UNION {SeqRange(deleteCalls[i]) : i \in 1..(Len(deleteCalls) - 1)}

\* C11: if a backend delete batch fails, the failing call is the last one,
\* Deploy has returned the error, the keys of the batches that succeeded before
\* are gone from the bucket, and the Deleted statistic Deploy returns counts
\* them: it is what it was before the failing call and not less than their
\* number.
C11_DeleteBatchFailure ==
    BatchFailed =>
        /\ mainPc = "returned"
        /\ result.err.kind = "delete"
        /\ Len(deleteCalls) = dIdx
        /\ SumLen(deleteCalls) = deleted + Len(keyChunks[dIdx])
        /\ SucceededKeys \cap DOMAIN bucket = {}
        /\ Cardinality(SucceededKeys) = deleted
        /\ result.stats = stats
        /\ result.stats.Deleted >= deleted
        /\ invalidations = <<>>

C11_Witness ==
    /\ BatchFailed
    /\ Len(deleteCalls) >= 2
    /\ dIdx < Len(keyChunks)

\* The content store.Put stores for a local file.
Stored(rel) == [size |-> LocalSize(rel), etag |-> LocalETag(rel)]

\* Every key whose Put or delete call succeeded is in the bucket as that call
\* left it: an uploaded key holds the local content, a deleted key is absent.
ChangesInPlace ==
    \A k \in SeqRange(changedKeys) :
        IF k \in putLog
        THEN k \in DOMAIN bucket /\ bucket[k] = Stored(RelOfKey(k))
        ELSE k \notin DOMAIN bucket

\* C12: the CDN invalidation is requested only by Deploy's last step, after
\* the walker and every worker has returned and the deletion phase has ended
\* with no failed batch; the request changes neither the bucket nor the
\* statistics, and when it fails Deploy returns its error while every
\* completed upload and delete is still in place.
C12_InvalidationLast ==
    /\ [](invalidations # <<>> =>
            /\ mainPc = "returned"
            /\ Len(invalidations) = 1
            /\ \A w \in Workers : wk[w].pc = "exited"
            /\ wPc = "exited"
            /\ ~BatchFailed
            /\ result.err.kind \in {"nil", "cdn"})
    /\ [](result.err.kind = "cdn" =>
            /\ invalidations # <<>>
            /\ result.stats = stats
            /\ ChangesInPlace)
    /\ [][invalidations' # invalidations =>
            /\ mainPc = "finalize"
            /\ bucket' = bucket
            /\ stats' = stats]_vars

C12_Witness ==
    /\ result.err.kind = "cdn"
    /\ Cardinality(putLog) >= 2
    /\ DeletedKeys # {}

\* The ordering group of the local file with key k.
GroupOfKey(k) == OrdersGet(cfg.Order, RelOfKey(k))

\* C13: uploads run as a strict sequence of group phases: when a Put starts,
\* no Put of a later group has started before it, and every Put still in
\* progress is of the same group, so that every Put of the earlier groups has
\* completed and none of them starts later.
C13_GroupPhases ==
    [][\A k \in putLog' \ putLog :
          /\ \A j \in putLog : GroupOfKey(j) <= GroupOfKey(k)
          /\ \A w \in Workers :
                wk[w].pc = "put" => GroupOfKey(wk[w].f.key) = GroupOfKey(k)]_vars

C13_Witness ==
    /\ cfg.Order # <<>>
    /\ cfg.NumberOfWorkers >= 2
    /\ Cardinality(putLog) = 3
    /\ \E w \in Workers : wk[w].pc = "put" /\ GroupOfKey(wk[w].f.key) = 2
    /\ \E k \in putLog : GroupOfKey(k) = 0

\* The second of two Deploy calls made no upload and no delete call.
SecondRunIdle == putLog = {} /\ deleteCalls = <<>>

\* C14: a second Deploy call, made after the first one returned nil and
\* against the same local tree and the bucket the first one left, makes no
\* upload and no delete call, provided that the first call was a real run,
\* that uploads are not forced, and that the first call left none of its
\* delete candidates in the bucket.
C14_Idempotent ==
    (prior.runs = 1 /\ ~prior.try /\ ~cfg.Force /\ prior.left = {}) => SecondRunIdle

\* A second call that ran to its end after a first call that uploaded and
\* deleted.
C14_Witness ==
    /\ prior.runs = 1 /\ ~prior.try /\ ~cfg.Force /\ prior.left = {}
    /\ prior.stats.Uploaded >= 2 /\ prior.stats.Deleted >= 1
    /\ mainPc = "returned" /\ result.err = NoErr
    /\ result.stats.Skipped >= 2

\* C14 as stated, for every first call that returned nil.
C14_AnyFirstRun == prior.runs = 1 => SecondRunIdle

\* C15: in a trial run the bucket never changes and no CDN invalidation is
\* requested, no Put, delete or invalidation fails, and the listing plan works
\* from is the bucket's own content under the bucket path.
C15_TrialFrame ==
    /\ [][cfg.Try => bucket' = bucket /\ invalidations' = invalidations]_vars
    /\ [](cfg.Try => /\ putFailed = {}
                     /\ invalidations = <<>>
                     /\ result.err.kind \notin {"put", "delete", "cdn"}
                     /\ (mainPc \notin {"init", "plan", "cancel"} /\ planErr = NoErr) =>
                            /\ listed = DOMAIN FileMap(bucket, cfg.BucketPath)
                            /\ \A k \in DOMAIN remoteFiles :
                                   remoteFiles[k] = bucket[k])

\* A trial run that has returned after reporting uploads and deletions.
C15_Witness ==
    /\ cfg.Try /\ mainPc = "returned"
    /\ result.stats.Uploaded >= 2 /\ result.stats.Deleted >= 1
    /\ Len(changedKeys) >= 3
    /\ listed # {}

\* C16: a real run that follows a trial run of the same local tree, bucket and
\* configuration, and returns nil, returns the counts the trial run returned.
C16_TrialCounts ==
    (prior.runs = 1 /\ prior.try /\ mainPc = "returned" /\ result.err = NoErr)
        => result.stats = prior.stats

\* A real run that returned nil after uploading, skipping, deleting and leaving
\* stale keys, following a trial run.
C16_Witness ==
    /\ prior.runs = 1 /\ prior.try /\ mainPc = "returned" /\ result.err = NoErr
    /\ result.stats.Uploaded >= 1 /\ result.stats.Skipped >= 1
    /\ result.stats.Deleted >= 1 /\ result.stats.Stale >= 1
    /\ Cardinality(putLog) >= 1 /\ DeletedKeys # {}

\* The deletion phase is over and DeleteObjects returned nil.
DeletionDone ==
    \/ mainPc = "finalize"
    \/ mainPc = "returned" /\ result.err.kind \in {"nil", "cdn"}

\* C17: once the deletion phase has ended without error, the Deleted and the
\* Stale statistic add up to the number of delete candidates plan found.
C17_DeletedPlusStale ==
    DeletionDone => stats.Deleted + stats.Stale = Len(filesToDelete)

\* C18: when Deploy returns nil, the Uploaded and the Skipped statistic add up
\* to the number of local files plan received from the walker.
C18_UploadedPlusSkipped ==
    (mainPc = "returned" /\ result.err = NoErr)
        => result.stats.Uploaded + result.stats.Skipped = Cardinality(received)

\* A run that returned nil after uploading two files and skipping one.
C18_Witness ==
    /\ mainPc = "returned" /\ result.err = NoErr
    /\ result.stats.Uploaded >= 2 /\ result.stats.Skipped >= 1
    /\ Cardinality(received) = 3

\* The keys whose Put call returned nil: no Put is in progress for them and
\* none failed.
PutSucceeded ==
    {k \in putLog \ putFailed : \A w \in Workers : wk[w].pc = "put" => wk[w].f.key # k}

\* C19: whenever Deploy has returned, with an error or without, the Uploaded
\* statistic is the number of Put calls that returned nil and the Skipped
\* statistic is the number of files plan classified as unchanged; while the
\* run goes on the two counters never differ from these numbers either.
C19_CountersExact ==
    /\ stats.Uploaded = Cardinality(PutSucceeded)
    /\ stats.Skipped = Cardinality(unchanged)
    /\ mainPc = "returned" =>
          /\ result.stats.Uploaded = Cardinality(putLog \ putFailed)
          /\ result.stats.Skipped = Cardinality(unchanged)

\* A run with two workers that returned an error after one Put had failed,
\* another had succeeded and a file had been skipped.
C19_Witness ==
    /\ mainPc = "returned" /\ result.err # NoErr
    /\ cfg.NumberOfWorkers >= 2
    /\ putFailed # {} /\ result.stats.Uploaded >= 1 /\ result.stats.Skipped >= 1

\* Sizes or fingerprints of a local file and a remote object differ.
Differ(f, other) == f.size # other.size \/ f.etag # other.etag

\* C20: for every local file and every remote object, shouldThisReplace says
\* replace exactly when the sizes differ or the ETags differ, and says keep
\* exactly when both are equal; and plan, receiving a file whose key is in the
\* listing, queues it for upload in the first case and skips it in the second.
C20_ChangeDetector ==
    /\ [](\A f, other \in FileObjs :
            /\ shouldThisReplace(f, other).up <=> Differ(f, other)
            /\ ~shouldThisReplace(f, other).up <=>
                   (f.size = other.size /\ f.etag = other.etag))
    /\ [][(received' # received /\ wFile.key \in DOMAIN remoteFiles) =>
            /\ (pf' # NoFile) <=> Differ(wFile, remoteFiles[wFile.key])
            /\ (unchanged' # unchanged) <=> ~Differ(wFile, remoteFiles[wFile.key])]_vars

\* plan has skipped a file whose remote object equals it while a worker is
\* uploading one whose remote object has the same size and another ETag.
C20_Witness ==
    /\ RelB \in unchanged
    /\ RelA \in listed /\ RelA \in received \ unchanged
    /\ \E w \in Workers : wk[w].pc = "put" /\ wk[w].f.key = RelA
                            /\ wk[w].f.reason = "ETag"
    /\ bucket[RelA].size = LocalSize(RelA) /\ bucket[RelA].etag # LocalETag(RelA)

\* C21: with force set, plan queues every file it receives whose key is in the
\* listing for upload with reason force, whatever the size and ETag of the
\* remote object, and no file is ever skipped.
C21_ForceUploads ==
    /\ [](cfg.Force => unchanged = {} /\ stats.Skipped = 0)
    /\ [][(cfg.Force /\ received' # received /\ wFile.key \in DOMAIN remoteFiles) =>
            /\ mainPc' = "send"
            /\ pf'.key = wFile.key
            /\ pf'.reason = "force"]_vars

\* A forced run in which a worker is uploading, for reason force, a file whose
\* remote object has the size and ETag of the local file.
C21_Witness ==
    /\ cfg.Force
    /\ \E w \in Workers :
          /\ wk[w].pc = "put" /\ wk[w].f.reason = "force"
          /\ wk[w].f.key \in DOMAIN bucket
          /\ bucket[wk[w].f.key] = [size |-> wk[w].f.size, etag |-> wk[w].f.etag]

\* The keys of the delete batches the backend executed: all that were passed
\* on, but for the last one when it failed.
DeletedOk == IF BatchFailed THEN SucceededKeys ELSE DeletedKeys

\* The delete candidates that no delete call was made for.
StaleKeys == SeqRange(filesToDelete) \ DeletedKeys

\* The keys the run ignored: those of the local files the walker left out and
\* the listed keys plan left out of the delete candidates as ignored.
IgnoredKeys ==
    {Key(cfg.BucketPath, tree[i]) : i \in {j \in 1..Len(tree) :
        shouldIgnoreLocal(cfg, tree[j]) \/ RouteIgnores(tree[j])}}
    \cup {k \in listed \ received : shouldIgnoreRemote(cfg, k)}

\* C22: the keys the store has tracked as changed are at every moment exactly
\* the keys whose Put returned nil and the keys of the delete batches that
\* succeeded, and the keys handed to the CDN invalidation are those: no
\* skipped, ignored, stale or failed key is among them.
C22_InvalidatedKeys ==
    /\ SeqRange(changedKeys) = PutSucceeded \cup DeletedOk
    /\ mainPc = "finalize" =>
          /\ SeqRange(changedKeys) = putLog \cup DeletedKeys
          /\ putFailed = {}
    /\ \A i \in 1..Len(invalidations) :
          /\ i = 1
          /\ invalidations[i] = changedKeys
          /\ SeqRange(invalidations[i]) = putLog \cup DeletedKeys
          /\ SeqRange(invalidations[i])
                \cap (unchanged \cup IgnoredKeys \cup StaleKeys \cup putFailed) = {}

\* An invalidation request for uploaded and deleted keys, made by a run that
\* also skipped a file, left a key stale and left an ignored key alone.
C22_Witness ==
    /\ Len(invalidations) = 1
    /\ putLog # {} /\ DeletedKeys # {}
    /\ unchanged # {} /\ StaleKeys # {}
    /\ IgnoredKeys \cap listed # {}

\* The wildcard that covers the whole web context root.
RootWildcard(root) ==
    IF root \in { <<>>, <<"/">> } THEN <<"/", "*">>
    ELSE IF root[1] = "/" THEN root \o <<"/", "*">>
    ELSE <<"/">> \o root \o <<"/", "*">>

\* C23: whatever the paths and the threshold, the reducer returns at most
\* threshold patterns or the root wildcard alone; with the threshold of
\* InvalidateCDNCache that is at most eight patterns or the root wildcard.
C23_ReducerBound ==
    cdn.called =>
        /\ \/ Len(cdn.out) <= cdn.threshold
           \/ cdn.out = <<RootWildcard(cdn.root)>>
        /\ cdn.threshold = ProdThreshold =>
              \/ Len(cdn.out) <= 8
              \/ cdn.out = <<RootWildcard(cdn.root)>>

\* The reducer, called with ten files in ten directories and the threshold of
\* InvalidateCDNCache, has given up and returned the root wildcard.
C23_Witness ==
    /\ cdn.called /\ ~cdn.force
    /\ cdn.threshold = ProdThreshold /\ cdn.paths = ManyDirs
    /\ cdn.root = <<"r">> /\ cdn.out = << <<"/", "r", "/", "*">> >>

\* C24: with force the reducer returns the root wildcard and nothing else,
\* whatever the paths and the threshold: /* for no root, /root/* for a root.
C24_ForceClearsAll ==
    (cdn.called /\ cdn.force) =>
        /\ Len(cdn.out) = 1
        /\ cdn.out[1] = RootWildcard(cdn.root)
        /\ cdn.root = <<>> => cdn.out = << <<"/", "*">> >>
        /\ cdn.root = <<"r">> => cdn.out = << <<"/", "r", "/", "*">> >>

\* The reducer, forced, was called with a root, a threshold it could have met
\* and two paths it would have returned as they are.
C24_Witness ==
    /\ cdn.called /\ cdn.force
    /\ cdn.root = <<"r">> /\ cdn.threshold = ProdThreshold
    /\ cdn.paths = << <<"s">>, <<"a", "/", "x">> >>
    /\ cdn.out = << <<"/", "r", "/", "*">> >>

\* Normalizing as the description has it: a leading slash is added when it is
\* missing, and a path that ends in index.html becomes its parent directory
\* with a trailing slash.
SlashedPath(p) == IF HasPrefix(p, <<"/">>) THEN p ELSE <<"/">> \o p

DescribedNormal(p) ==
    LET q == SlashedPath(p)
        last == CHOOSE i \in 1..Len(q) : q[i] = "/" /\ \A j \in (i + 1)..Len(q) : q[j] # "/"
    IN IF HasSuffix(q, IndexHtml) THEN SubSeq(q, 1, last) ELSE q

DescribedNormals(paths) == {DescribedNormal(paths[i]) : i \in 1..Len(paths)}

\* A sequence is sorted in byte order and has no duplicates.
StrictlySorted(s) == \A i \in 1..(Len(s) - 1) : StrLess(s[i], s[i + 1])

\* C25: when force is not set and the distinct normalized paths are no more
\* than the threshold, the reducer returns exactly these, sorted and without
\* duplicates.
C25_SmallListsKept ==
    (cdn.called /\ ~cdn.force
       /\ Cardinality(DescribedNormals(cdn.paths)) <= cdn.threshold) =>
        /\ StrictlySorted(cdn.out)
        /\ {cdn.out[i] : i \in 1..Len(cdn.out)} = DescribedNormals(cdn.paths)

\* The Put calls in progress.
PutsInProgress == {w \in Workers : wk[w].pc = "put"}

\* C26: at every moment the number of Put calls in progress is at most the
\* configured number of workers, or the number of CPUs of the host when the
\* configured number is zero or less.
C26_PutsBounded ==
    /\ cfg.NumberOfWorkers > 0 => Cardinality(PutsInProgress) <= cfg.NumberOfWorkers
    /\ cfg.NumberOfWorkers <= 0 => Cardinality(PutsInProgress) <= NumCPU

\* No worker count is configured and as many Put calls as the host has CPUs
\* are in progress while plan holds a further file for upload.
C26_Witness ==
    /\ cfg.NumberOfWorkers <= 0
    /\ Cardinality(PutsInProgress) = NumCPU
    /\ mainPc = "send" /\ pf # NoFile

\* The settings the validation of a configuration rejects, by what is wrong
\* with them.
NoBucketName(fl) == fl.BucketName = ""

OneKeyOnly(fl) ==
    /\ fl.BucketName # ""
    /\ \/ fl.AccessKey # "" /\ fl.SecretKey = "" /\ fl.EnvSecretKey = ""
       \/ fl.SecretKey # "" /\ fl.AccessKey = "" /\ fl.EnvAccessKey = ""

SourceIsRoot(fl) == fl.SourcePath = <<"/">>

PublicAccessAndAcl(fl) == fl.PublicReadACL /\ fl.ACL # ""

BadIgnorePattern(fl) == ~fl.IgnoreCompiles

ValidationFails(fl) ==
    \/ NoBucketName(fl)
    \/ OneKeyOnly(fl)
    \/ SourceIsRoot(fl)
    \/ PublicAccessAndAcl(fl)
    \/ BadIgnorePattern(fl)

\* C27: when the validation of the configuration fails (no bucket name, a
\* source path that is a filesystem root, only one of access key and secret
\* key, both public-access and acl, or an ignore pattern that does not
\* compile), Deploy goes from its first statement straight to its return: it
\* returns a configuration error with all four statistics zero, and the run
\* has listed nothing, called no Put, no delete and no invalidation, and left
\* the bucket as it was.
C27_InvalidConfig ==
    (prior.runs = 0 /\ ValidationFails(cfg.Flags)) =>
        /\ mainPc \in {"init", "returned"}
        /\ listed = {} /\ putLog = {} /\ putFailed = {}
        /\ deleteCalls = <<>> /\ invalidations = <<>>
        /\ received = {}
        /\ mainPc = "returned" =>
              /\ result.returned
              /\ result.err.kind = "config"
              /\ result.err = cfginit(cfg.Flags)
              /\ result.stats = [Deleted |-> 0, Stale |-> 0, Uploaded |-> 0, Skipped |-> 0]

\* Deploy has returned the error of a configuration without a bucket name,
\* with files in the source directory and a bucket that differs from it.
C27_Witness ==
    /\ mainPc = "returned"
    /\ NoBucketName(cfg.Flags)
    /\ result.err = Err("config", <<"AWS bucket is required">>)
    /\ tree # <<>>
    /\ DOMAIN bucket # {}

\* The walk has failed (a file could not be opened, or the walker gave up on a
\* cancelled context), or a Put has returned an error.
WalkOrPutFailed == wErr # NoErr \/ putFailed # {}

\* C28: once the walk has failed or a Put has failed, the run makes no delete
\* call and no CDN invalidation, Deploy never reaches store.DeleteObjects, and
\* every listed key the walker delivered no local file for, whatever plan has
\* put on its list of delete candidates, is still in the bucket.
C28_FailedRunDeletesNothing ==
    WalkOrPutFailed =>
        /\ deleteCalls = <<>>
        /\ invalidations = <<>>
        /\ mainPc \notin {"delete", "deleteloop", "finalize"}
        /\ (listed \ received) \subseteq DOMAIN bucket

\* Deploy has returned after a walk that failed at a file it could not open:
\* plan has put a listed key the walk never reached on the list of delete
\* candidates, the key belongs to a local file that comes after the failing
\* one, and the key is still in the bucket.
C28_Witness ==
    /\ mainPc = "returned"
    /\ wErr.kind = "open"
    /\ ~cfg.Try
    /\ \E i \in 1..Len(tree) :
          LET k == Key(cfg.BucketPath, tree[i])
          IN /\ ComesAfter(tree[i], wErr.key)
             /\ k \in listed \ received
             /\ k \in SeqRange(filesToDelete)
             /\ k \in DOMAIN bucket

\* C29: no key the planner has received a local file for in this run, whether
\* it queued the file for upload or skipped it, is among the delete candidates
\* or in a batch passed to a delete call.
C29_ReceivedNeverDeleted ==
    /\ received \cap SeqRange(filesToDelete) = {}
    /\ received \cap DeletedKeys = {}

\* A run under a bucket path has made a delete call, after plan received a
\* local file it skipped and one it queued for upload, both for listed keys.
C29_Witness ==
    /\ cfg.BucketPath # <<>>
    /\ deleteCalls # <<>>
    /\ unchanged \cap listed # {}
    /\ (received \ unchanged) \cap listed \cap putLog # {}

\* The deletion phase is over: store.DeleteObjects has returned.
DeletionOver == mainPc \in {"finalize", "returned"}

\* C30: after the deletion phase the Deleted statistic is the number of keys
\* in the delete batches the backend executed successfully, however many
\* batches there were.
C30_DeletedCountsKeys ==
    DeletionOver => stats.Deleted = Cardinality(DeletedOk)

\* The concatenation of a sequence of sequences.
RECURSIVE Flatten(_)
Flatten(q) == IF q = <<>> THEN <<>> ELSE q[1] \o Flatten(Tail(q))

\* C31: the batches passed to the backend's delete call are non-empty, hold at
\* most min(1000, max-delete) keys each, and are, in the order of the calls,
\* consecutive segments of the candidate list from its start (so they keep
\* its order and share no position); and a batch is passed on only when every
\* batch before it has returned successfully, as the segment that follows
\* them.
C31_Batches ==
    /\ [](/\ \A i \in 1..Len(deleteCalls) :
                /\ Len(deleteCalls[i]) >= 1
                /\ Len(deleteCalls[i]) <= Min(MaxChunk, cfg.MaxDelete)
          /\ SumLen(deleteCalls) <= Len(filesToDelete)
          /\ Flatten(deleteCalls) = SubSeq(filesToDelete, 1, SumLen(deleteCalls)))
    /\ [][deleteCalls' # deleteCalls =>
            /\ SumLen(deleteCalls) = deleted
            /\ \E n \in 1..Min(MaxChunk, cfg.MaxDelete) :
                  deleteCalls' = Append(deleteCalls,
                                        SubSeq(filesToDelete, deleted + 1, deleted + n))]_vars

\* Three batches have been passed on under a ceiling above the backend's
\* maximum: two full ones that succeeded and a last one of a single key.
C31_Witness ==
    /\ Len(deleteCalls) = 3
    /\ cfg.MaxDelete > 2 * MaxChunk
    /\ Len(deleteCalls[1]) = MaxChunk /\ Len(deleteCalls[2]) = MaxChunk
    /\ Len(deleteCalls[3]) = 1
    /\ deleted = 2 * MaxChunk

\* C32: calculateETag runs at most once for a local file in a run, and only
\* for a file plan has received, without force, whose key is in the listing
\* with a remote object of the file's size: each run of it is in plan's step
\* for such a file, for which it has not run before.
C32_FingerprintLazy ==
    /\ [](/\ \A i, j \in 1..Len(etagLog) : etagLog[i] = etagLog[j] => i = j
          /\ \A k \in SeqRange(etagLog) :
                ~cfg.Force /\ k \in listed /\ k \in received)
    /\ [][etagLog' # etagLog =>
            /\ ~cfg.Force
            /\ wFile.key \in DOMAIN remoteFiles
            /\ remoteFiles[wFile.key].size = wFile.size
            /\ wFile.key \notin SeqRange(etagLog)
            /\ etagLog' = Append(etagLog, wFile.key)]_vars
    /\ [][(received' # received
            /\ (cfg.Force \/ wFile.key \notin DOMAIN remoteFiles
                           \/ remoteFiles[wFile.key].size # wFile.size)) =>
            etagLog' = etagLog]_vars

\* Plan has received three files with a remote object each: the fingerprint
\* has been computed for the two whose remote object has the file's size, and
\* not for the third, which is in a Put while the bucket still holds an object
\* of another size for it.
C32_Witness ==
    /\ ~cfg.Force
    /\ Len(etagLog) = 2
    /\ \E w \in Workers :
          /\ wk[w].pc = "put" /\ wk[w].f.reason = "size"
          /\ wk[w].f.key \in (received \cap listed) \ SeqRange(etagLog)
          /\ bucket[wk[w].f.key].size # wk[w].f.size
    /\ unchanged # {}

\* Some route marked ignore matches the path, wherever it stands in the list.
IgnoreRouteMatches(rel) ==
    \E j \in 1..Len(cfg.Routes) : cfg.Routes[j].Ignore /\ rel \in cfg.Routes[j].re

\* C33: a local file whose path a route marked ignore matches, at whatever
\* position in the route list, is not handed to the planner and no Put is
\* called for its key.
C33_IgnoreRouteAnywhere ==
    \A i \in 1..Len(tree) :
        IgnoreRouteMatches(tree[i]) =>
            /\ Key(cfg.BucketPath, tree[i]) \notin received
            /\ Key(cfg.BucketPath, tree[i]) \notin putLog

\* Deployer.plan has returned to Deploy.
PlanReturned ==
    \/ mainPc \in {"cancel", "wait", "delete", "deleteloop", "finalize"}
    \/ mainPc = "returned" /\ result.err.kind # "config"

\* Deployer.walk has returned.
WalkReturned == wPc \in {"failed", "exited"}

\* C34: when the walker has returned, with or without an error, the local-file
\* channel is closed, and when the planner has returned, with or without an
\* error, the upload queue is closed.
C34_ProducersClose ==
    /\ WalkReturned => lfClosed
    /\ PlanReturned => upClosed

\* The local files read into memory that are not yet skipped, uploaded or
\* dropped: the one the walker offers on localFiles, the one plan offers on
\* filesToUpload, and those the workers are in a Put with.
FilesHeld ==
    (IF wFile # NoFile THEN {wFile.key} ELSE {})
    \cup (IF pf # NoFile THEN {pf.key} ELSE {})
    \cup {wk[w].f.key : w \in PutsInProgress}

\* C35: at every moment the number of local files read into memory and not
\* yet skipped, uploaded or dropped is at most the worker count plus two.
C35_FilesInMemory ==
    Cardinality(FilesHeld) <=
        (IF cfg.NumberOfWorkers <= 0 THEN NumCPU ELSE cfg.NumberOfWorkers) + 2

\* The bound is reached with one worker: it is in a Put with the first file,
\* plan is blocked with the second and the walker with the third, and a
\* fourth file is still to be read.
C35_Witness ==
    /\ cfg.NumberOfWorkers = 1
    /\ Cardinality(FilesHeld) = 3
    /\ wPc = "send" /\ mainPc = "send"
    /\ wIdx < Len(tree)

\* C36: once a call of Config.Init on a Config has returned an error, every
\* later call on it returns an error too, the one Deploy makes included, and
\* Deploy does not go beyond its first statement with a configuration whose
\* validation fails.
C36_ValidationSticky ==
    /\ \A i, j \in 1..Len(initCalls) :
          (i < j /\ initCalls[i] # NoErr) => initCalls[j] # NoErr
    /\ cfginit(cfg.Flags) # NoErr => mainPc \in {"init", "returned"}

\* The pattern is a wildcard whose directory is an ancestor of the path.
WildcardOver(pattern, q) ==
    /\ HasSuffix(pattern, <<"/", "*">>)
    /\ HasPrefix(q, SubSeq(pattern, 1, Len(pattern) - 1))

\* The path, with its leading slash, is covered by the patterns: it is among
\* them, or it is an index.html and its directory form is, or a wildcard over
\* it is, or the root wildcard is.
Covered(p, out, root) ==
    LET q == SlashedPath(p)
    IN \/ q \in SeqRange(out)
       \/ /\ HasSuffix(q, <<"/">> \o IndexHtml)
          /\ DescribedNormal(p) \in SeqRange(out)
       \/ \E i \in 1..Len(out) : WildcardOver(out[i], q)
       \/ RootWildcard(root) \in SeqRange(out)

\* C37: every path given to the reducer is covered by its result.
C37_EveryPathCovered ==
    cdn.called => \A i \in 1..Len(cdn.paths) : Covered(cdn.paths[i], cdn.out, cdn.root)

\* The list in reverse order.
Reverse(s) == [i \in 1..Len(s) |-> s[Len(s) + 1 - i]]

\* Lists of the same keys in another order or with keys repeated: for a short
\* list every list of up to MaxPaths entries with the same set of keys, for a
\* long one its reverse, its rotation by one and the list twice over.
Rearranged(paths) ==
    IF Len(paths) <= MaxPaths
    THEN {q \in UNION {[1..n -> SeqRange(paths)] : n \in 0..MaxPaths} :
             SeqRange(q) = SeqRange(paths)}
    ELSE {Reverse(paths), Tail(paths) \o <<Head(paths)>>, paths \o paths}

\* C38: the reducer returns the same pattern list for every list that holds
\* the same keys, in whatever order and however often.
C38_OrderIndependent ==
    cdn.called =>
        \A q \in Rearranged(cdn.paths) :
            normalizeInvalidationPaths(cdn.root, cdn.threshold, cdn.force, q) = cdn.out

\* The reducer was called with three keys that are not in sorted order, one of
\* them twice over once rearranged, and has collapsed them to meet the threshold.
C38_Witness ==
    /\ cdn.called /\ ~cdn.force
    /\ cdn.threshold = 2 /\ cdn.root = <<>>
    /\ cdn.paths = << <<"b", "/", "x">>, <<"a", "/", "b", "/", "y">>,
                      <<"a", "/", "b", "/", "x">> >>
    /\ cdn.out = << <<"/", "a", "/", "*">>, <<"/", "b", "/", "x">> >>
    /\ Cardinality(Rearranged(cdn.paths)) = 6

\* The order expressions that match a path, by position.
Matching(order, path) == {j \in 1..Len(order) : path \in order[j]}

\* The files of a group.
FilesOfGroup(g) == {i \in 1..Len(tree) : grp.out[i] = g}

\* C39: with n order expressions every local file gets one group index in
\* 0..n: 0 when no expression matches its path, and otherwise the position,
\* counted from 1, of the last expression that matches; so the groups 0..n
\* share no file and hold all the files between them.
C39_GroupAssignment ==
    grp.called =>
        LET n == Len(grp.order)
        IN /\ \A i \in 1..Len(tree) :
                 LET hits == Matching(grp.order, tree[i])
                 IN /\ grp.out[i] \in 0..n
                    /\ grp.out[i] = 0 <=> hits = {}
                    /\ grp.out[i] # 0 =>
                          /\ grp.out[i] \in hits
                          /\ \A h \in hits : h <= grp.out[i]
           /\ \A g, h \in 0..n : g # h => FilesOfGroup(g) \cap FilesOfGroup(h) = {}
           /\ UNION {FilesOfGroup(g) : g \in 0..n} = 1..Len(tree)

\* Three files grouped under three expressions: the first file matches the
\* first two expressions and is in group 2, the second matches none and is in
\* group 0, the third matches the last, and group 1 is empty.
C39_Witness ==
    /\ grp.called
    /\ grp.order = << {RelA}, {RelA}, {RelC} >>
    /\ grp.out = <<2, 0, 3>>
    /\ FilesOfGroup(1) = {}

\* C40: a run in which no Put and no delete batch has succeeded sends no
\* invalidation request, whether it is still running or has returned.
C40_NothingChangedNoRequest ==
    (PutSucceeded = {} /\ DeletedOk = {}) => invalidations = <<>>

\* A real run over three local files has gone through store.Finalize and
\* returned nil: it skipped all three, found nothing to delete, and sent no
\* request.
C40_Witness ==
    /\ mainPc = "returned" /\ result.err = NoErr
    /\ ~cfg.Try
    /\ result.stats = [Deleted |-> 0, Stale |-> 0, Uploaded |-> 0, Skipped |-> 3]
    /\ putLog = {} /\ deleteCalls = <<>>
    /\ changedKeys = <<>>
    /\ invalidations = <<>>

====
